---- MODULE Spec2Model ----
(***************************************************************************)
(* A model of the oscilloscope-capture analysis pipeline: the CSV parser,  *)
(* the per-channel statistics, the windowed radix-2 FFT, the spectral      *)
(* analysis and the three-phase power-quality analyzer.                    *)
(*                                                                         *)
(* Numbers.  A JavaScript number is modelled exactly, not by a rounded     *)
(* float.  A number is a record [t, s, a, b, d]:                           *)
(*   t = "num"        the value (a + b*sqrt(2)) / d, d > 0, in lowest terms *)
(*   t = "root"       the surd s * sqrt((a + b*sqrt(2)) / d), s = 1 or -1  *)
(*   t = "Infinity"   s * Infinity                                         *)
(*   t = "NaN", t = "undefined"                                            *)
(* sqrt(2) is needed by the 8-point FFT's twiddle factors; surds are the   *)
(* results of Math.sqrt that are not rational.  Products, quotients and    *)
(* comparisons are exact; only a sum that has a surd operand rounds that   *)
(* operand down to three decimals first.  A zero keeps its IEEE sign in s.  *)
(***************************************************************************)
EXTENDS Integers, Sequences, FiniteSets, TLC

VARIABLES
    pc,           \* which operation has run: "input" before, the operation's name after
    waveform,     \* WaveformDataPoint[]: the window handed to the analysis functions
    channels,     \* string[]: the channel list handed to the analysis functions
    sampleRateHz, \* the sample rate handed to the analysis functions
    windowType,   \* WindowFunctionType handed to performFFTAnalysis
    chU, chV,     \* the two channels selected for the power analysis
    text,         \* the file text handed to parseOscilloscopeCsv: a sequence of characters
    result,       \* what the operation returned
    originalData, \* App: useState<ParsedData | null>, the capture as loaded
    displayedData,\* App: useState<ParsedData | null>, the view on screen
    fftConfig,    \* App: useState({ scope, window })
    isZoomed,     \* App: useState(false)
    mathCount,    \* App: useState(0), the number of math channels added
    heap,         \* the ChannelStats objects alive: object identity -> record
    status,       \* App: useState<AnalysisStatus>(AnalysisStatus.IDLE)
    aiAnalysis,   \* App: useState<string>(""), the summarizer panel's text
    channelNames, \* App: useState<Record<string, string>>({}), custom display names
    pending,      \* the analyzeSignalWithGemini calls that have not settled
    mathSourceCh, \* App: useState<string>(''), the value of the math panel's source select
    mathFactor,   \* App: useState<string>('1.0'), the text of the math panel's factor field
    editingChannel, \* App: useState<string | null>(null), the channel being renamed
    tempName      \* App: useState(""), the text of the rename field

\* the state of the math panel and of the rename field
panelVars == <<mathSourceCh, mathFactor, editingChannel, tempName>>

appVars == <<originalData, displayedData, fftConfig, isZoomed, mathCount, heap,
             status, aiAnalysis, channelNames, pending, panelVars>>

vars == <<pc, waveform, channels, sampleRateHz, windowType, chU, chV, text, result,
          originalData, displayedData, fftConfig, isZoomed, mathCount, heap,
          status, aiAnalysis, channelNames, pending,
          mathSourceCh, mathFactor, editingChannel, tempName>>

\* the value of a React state that holds no ParsedData
null == [null |-> TRUE]

\* the text of the summarizer panel: "", t.analyzingPrompt, t.errorAnalysis, or
\* the response to a request
NoText == [kind |-> "empty"]

\* the App as its useState calls construct it, before any handler has run
AppMounted ==
    /\ originalData = null
    /\ displayedData = null
    /\ fftConfig = [scope |-> "view", window |-> "hanning"]
    /\ isZoomed = FALSE
    /\ mathCount = 0
    /\ heap = <<>>
    /\ status = "IDLE"
    /\ aiAnalysis = NoText
    /\ channelNames = <<>>
    /\ pending = {}
    /\ mathSourceCh = ""
    /\ mathFactor = <<"1", ".", "0">>
    /\ editingChannel = null
    /\ tempName = ""

----------------------------------------------------------------------------
(* Integer helpers *)

\* an array, with every element computed when the array is created
ArrayOf(f) == f \o <<>>

\* an object keyed by strings, with every property computed when it is created
ObjectOf(f) == f @@ <<>>

IAbs(i) == IF i < 0 THEN -i ELSE i

ISgn(i) == IF i > 0 THEN 1 ELSE IF i < 0 THEN -1 ELSE 0

RECURSIVE GCD(_, _)
GCD(m, n) == IF n = 0 THEN m ELSE GCD(n, m % n)

\* floor(sqrt(n)) for n >= 0, by bisection on lo..hi (lo*lo <= n < (hi+1)*(hi+1))
RECURSIVE ISqrtIn(_, _, _)
ISqrtIn(n, lo, hi) ==
    IF lo >= hi THEN lo
    ELSE LET mid == (lo + hi + 1) \div 2
         IN  IF mid * mid <= n THEN ISqrtIn(n, mid, hi) ELSE ISqrtIn(n, lo, mid - 1)

ISqrt(n) == ISqrtIn(n, 0, IF n < 46340 THEN n ELSE 46340)

IsSquare(n) == n >= 0 /\ ISqrt(n) * ISqrt(n) = n

----------------------------------------------------------------------------
(* Numbers: constructors *)

NaN == [t |-> "NaN", s |-> 1, a |-> 0, b |-> 0, d |-> 1]

undefined == [t |-> "undefined", s |-> 1, a |-> 0, b |-> 0, d |-> 1]

Infinity == [t |-> "Infinity", s |-> 1, a |-> 0, b |-> 0, d |-> 1]

NegInfinity == [t |-> "Infinity", s |-> -1, a |-> 0, b |-> 0, d |-> 1]

\* (a + b*sqrt(2)) / d in lowest terms, d # 0
Fin(a, b, d) ==
    LET g == GCD(GCD(IAbs(a), IAbs(b)), IAbs(d))
        k == IF d < 0 THEN -g ELSE g
    IN  [t |-> "num", s |-> 1, a |-> a \div k, b |-> b \div k, d |-> d \div k]

Num(i) == [t |-> "num", s |-> 1, a |-> i, b |-> 0, d |-> 1]

Rat(p, q) == Fin(p, 0, q)

IsFinite(x) == x.t \in {"num", "root"}

\* +0 and -0
IsZero(x) == x.t = "num" /\ x.a = 0 /\ x.b = 0

NegZero == [t |-> "num", s |-> -1, a |-> 0, b |-> 0, d |-> 1]

Zero(sign) == IF sign < 0 THEN NegZero ELSE Num(0)

\* whether m > n*sqrt(2) for m, n > 0, without squaring: for n < m < 2n,
\* m/n > sqrt(2) exactly when (2n - m)/(m - n) < sqrt(2)
RECURSIVE ExceedsSqrt2(_, _)
ExceedsSqrt2(m, n) ==
    IF m <= n THEN FALSE
    ELSE IF m >= 2 * n THEN TRUE
    ELSE ~ExceedsSqrt2(2 * n - m, m - n)

\* sign of a + b*sqrt(2)
QSgn(a, b) ==
    IF b = 0 THEN ISgn(a)
    ELSE IF a = 0 THEN ISgn(b)
    ELSE IF ISgn(a) = ISgn(b) THEN ISgn(a)
    ELSE IF a > 0 THEN (IF ExceedsSqrt2(a, -b) THEN 1 ELSE -1)
    ELSE (IF ExceedsSqrt2(-a, b) THEN -1 ELSE 1)

\* sign of a finite number: 1, 0 or -1
Sgn(x) == IF x.t = "root" THEN x.s ELSE QSgn(x.a, x.b)

\* the IEEE sign of a number that is not NaN: 1 or -1, also for a zero
SignBit(x) == IF x.t \in {"root", "Infinity"} \/ IsZero(x) THEN x.s ELSE QSgn(x.a, x.b)

\* x + y over the least common denominator
QAdd(x, y) ==
    LET g  == GCD(x.d, y.d)
        mx == y.d \div g
        my == x.d \div g
    IN  Fin(x.a * mx + y.a * my, x.b * mx + y.b * my, x.d * mx)

\* x * y, each numerator first reduced against the other denominator
QMul(x, y) ==
    LET gx == GCD(GCD(IAbs(x.a), IAbs(x.b)), y.d)
        gy == GCD(GCD(IAbs(y.a), IAbs(y.b)), x.d)
        xa == x.a \div gx
        xb == x.b \div gx
        ya == y.a \div gy
        yb == y.b \div gy
    IN  Fin(xa * ya + 2 * xb * yb, xa * yb + xb * ya, (x.d \div gy) * (y.d \div gx))

QNeg(x) == [x EXCEPT !.a = -x.a, !.b = -x.b]

\* 1 / x for x # 0: d * (a - b*sqrt(2)) / (a*a - 2*b*b)
QInv(x) == Fin(x.d * x.a, -(x.d * x.b), x.a * x.a - 2 * x.b * x.b)

\* the square of a finite number, a "num"
Sq(x) == IF x.t = "root" THEN [x EXCEPT !.t = "num", !.s = 1] ELSE QMul(x, x)

\* sign * sqrt(q) for a "num" q >= 0; rational when q is the square of a rational
MkRoot(sign, q) ==
    IF sign = 0 \/ (q.a = 0 /\ q.b = 0) THEN Num(0)
    ELSE IF q.b = 0 /\ IsSquare(q.a) /\ IsSquare(q.d)
         THEN Fin(sign * ISqrt(q.a), 0, ISqrt(q.d))
    ELSE [q EXCEPT !.t = "root", !.s = sign]

\* a surd rounded toward zero to three decimals (sqrt(2) taken as 1.414); a "num" as it is
Approx(x) ==
    IF x.t = "root"
    THEN Fin(x.s * ISqrt(((1000 * x.a + 1414 * x.b) * 1000) \div x.d), 0, 1000)
    ELSE x

----------------------------------------------------------------------------
(* Numbers: the JavaScript operators *)

\* x + y
Plus(x, y) ==
    IF x.t \in {"NaN", "undefined"} \/ y.t \in {"NaN", "undefined"} THEN NaN
    ELSE IF x.t = "Infinity" THEN (IF y.t = "Infinity" /\ y.s # x.s THEN NaN ELSE x)
    ELSE IF y.t = "Infinity" THEN y
    ELSE IF IsZero(x) /\ IsZero(y) THEN Zero(IF x.s = -1 /\ y.s = -1 THEN -1 ELSE 1)
    ELSE QAdd(Approx(x), Approx(y))

\* -x
Neg(x) ==
    IF x.t = "undefined" THEN NaN
    ELSE IF x.t = "NaN" THEN NaN
    ELSE IF x.t = "num" /\ ~IsZero(x) THEN QNeg(x)
    ELSE [x EXCEPT !.s = -x.s]

\* x - y
Minus(x, y) == Plus(x, Neg(y))

\* x * y
Times(x, y) ==
    IF x.t \in {"NaN", "undefined"} \/ y.t \in {"NaN", "undefined"} THEN NaN
    ELSE IF x.t = "Infinity" \/ y.t = "Infinity"
         THEN LET sx == IF x.t = "Infinity" THEN x.s ELSE Sgn(x)
                  sy == IF y.t = "Infinity" THEN y.s ELSE Sgn(y)
              IN  IF sx * sy = 0 THEN NaN ELSE [Infinity EXCEPT !.s = sx * sy]
    ELSE IF IsZero(x) \/ IsZero(y) THEN Zero(SignBit(x) * SignBit(y))
    ELSE IF x.t = "num" /\ y.t = "num" THEN QMul(x, y)
    ELSE IF x.t = "root" /\ y.t = "root" /\ Sq(x) = Sq(y)
         THEN (IF x.s = y.s THEN Sq(x) ELSE QNeg(Sq(x)))
    ELSE MkRoot(Sgn(x) * Sgn(y), QMul(Sq(x), Sq(y)))

\* x / y
Over(x, y) ==
    IF x.t \in {"NaN", "undefined"} \/ y.t \in {"NaN", "undefined"} THEN NaN
    ELSE IF y.t = "Infinity"
         THEN (IF x.t = "Infinity" THEN NaN ELSE Zero(SignBit(x) * y.s))
    ELSE IF IsZero(y)
         THEN (IF IsZero(x) THEN NaN ELSE [Infinity EXCEPT !.s = SignBit(x) * y.s])
    ELSE IF x.t = "Infinity" THEN [Infinity EXCEPT !.s = x.s * Sgn(y)]
    ELSE IF IsZero(x) THEN Zero(x.s * SignBit(y))
    ELSE IF x.t = "num" /\ y.t = "num" THEN QMul(x, QInv(y))
    ELSE MkRoot(Sgn(x) * Sgn(y), QMul(Sq(x), QInv(Sq(y))))

\* x > y
Gt(x, y) ==
    IF x.t \in {"NaN", "undefined"} \/ y.t \in {"NaN", "undefined"} THEN FALSE
    ELSE IF x.t = "Infinity" THEN x.s = 1 /\ ~(y.t = "Infinity" /\ y.s = 1)
    ELSE IF y.t = "Infinity" THEN y.s = -1
    ELSE IF x.t = "num" /\ y.t = "num" THEN Sgn(QAdd(x, QNeg(y))) > 0
    ELSE LET sx == Sgn(x)
             sy == Sgn(y)
             c  == Sgn(QAdd(Sq(x), QNeg(Sq(y))))   \* sign of x*x - y*y
         IN  IF sx # sy THEN sx > sy
             ELSE IF sx > 0 THEN c > 0
             ELSE IF sx < 0 THEN c < 0
             ELSE FALSE

\* x < y
Lt(x, y) == Gt(y, x)

\* x === y on numbers
Eq(x, y) ==
    /\ x.t \notin {"NaN", "undefined"}
    /\ y.t \notin {"NaN", "undefined"}
    /\ ~Gt(x, y)
    /\ ~Gt(y, x)

\* x >= y, x <= y
Ge(x, y) == Gt(x, y) \/ Eq(x, y)

Le(x, y) == Ge(y, x)

\* Math.sqrt(x), x not a surd
MathSqrt(x) ==
    IF x.t \in {"NaN", "undefined"} THEN NaN
    ELSE IF x.t = "Infinity" THEN (IF x.s = 1 THEN Infinity ELSE NaN)
    ELSE IF Sgn(x) < 0 THEN NaN
    ELSE IF IsZero(x) THEN x
    ELSE MkRoot(1, x)

\* Math.abs(x)
MathAbs(x) ==
    IF x.t \in {"NaN", "undefined"} THEN NaN
    ELSE IF x.t = "Infinity" THEN Infinity
    ELSE IF IsZero(x) THEN Num(0)
    ELSE IF Sgn(x) < 0 THEN Neg(x) ELSE x

\* Math.max(x, y, z)
MathMax(x, y, z) ==
    IF \E v \in {x, y, z} : v.t \in {"NaN", "undefined"} THEN NaN
    ELSE LET m == IF Gt(y, x) THEN y ELSE x
         IN  IF Gt(z, m) THEN z ELSE m

\* isNaN(x)
isNaN(x) == x.t \in {"NaN", "undefined"}

\* x || 0 for a number or undefined x: 0, NaN and undefined are falsy
OrZero(x) ==
    IF x.t \in {"NaN", "undefined"} THEN Num(0)
    ELSE IF IsFinite(x) /\ Sgn(x) = 0 THEN Num(0)
    ELSE x

----------------------------------------------------------------------------
(* Angles handed to Math.cos and Math.sin.  Every such angle in the source  *)
(* is (2 * Math.PI * p) / q or (-2 * Math.PI * p) / q for integers p >= 0   *)
(* and q, and is kept as [s, p, q], s the sign of the numerator.  The       *)
(* values are exact for the angles whose cosine and sine lie in Q(sqrt 2):  *)
(* q = 0 (the angle is NaN or infinite), or p/q a multiple of 1/8 or of 1/6 *)
(* of a turn (sine: 1/8 only).  A cosine or sine that is 0 at the exact     *)
(* angle is the number 0 here.                                              *)

TwoPiTimes(p, q) == [s |-> 1, p |-> p, q |-> q]

MinusTwoPiTimes(p, q) == [s |-> -1, p |-> p, q |-> q]

\* the angle as a fraction of a turn in [0, 1), in lowest terms; q # 0
TurnOf(angle) ==
    LET q0 == IAbs(angle.q)
        p0 == (IF angle.q * angle.s < 0 THEN -angle.p ELSE angle.p) % q0
        g  == GCD(p0, q0)
    IN  [p |-> p0 \div g, q |-> q0 \div g]

HalfSqrt2 == Fin(0, 1, 2)

\* Math.cos(angle)
MathCos(angle) ==
    IF angle.q = 0 THEN NaN
    ELSE LET u == TurnOf(angle)
         IN  CASE u.q = 1 -> Num(1)
               [] u.q = 2 -> Num(-1)
               [] u.q = 3 -> Rat(-1, 2)
               [] u.q = 4 -> Num(0)
               [] u.q = 6 -> Rat(1, 2)
               [] u.q = 8 -> IF u.p \in {1, 7} THEN HalfSqrt2 ELSE QNeg(HalfSqrt2)

\* Math.sin(angle); the sine of the angle -0 is -0
MathSin(angle) ==
    IF angle.q = 0 THEN NaN
    ELSE LET u == TurnOf(angle)
         IN  CASE u.q \in {1, 2} -> Zero(angle.s * (IF angle.q < 0 THEN -1 ELSE 1))
               [] u.q = 4 -> IF u.p = 1 THEN Num(1) ELSE Num(-1)
               [] u.q = 8 -> IF u.p \in {1, 3} THEN HalfSqrt2 ELSE QNeg(HalfSqrt2)

----------------------------------------------------------------------------
(* fft: sequences are 1-based here, so data[i] of the source is data[i + 1] *)

IsPowerOfTwo(n) == n >= 1 /\ \E k \in 0..30 : n = 2 ^ k

\* Math.pow(2, Math.ceil(Math.log2(n))) for n >= 1, by doubling from p
RECURSIVE NextPow2From(_, _)
NextPow2From(n, p) == IF p >= n THEN p ELSE NextPow2From(n, 2 * p)

NextPow2(n) == NextPow2From(n, 1)

\* (mutant) the twiddle angle has the inverse transform's sign, +2*PI*k/n
ButterflyInverse(evenResult, oddResult, n) ==
    LET half == n \div 2
        cos(k) == MathCos(TwoPiTimes(k, n))
        sin(k) == MathSin(TwoPiTimes(k, n))
        tReal(k) == Minus(Times(cos(k), oddResult.real[k + 1]),
                          Times(sin(k), oddResult.imag[k + 1]))
        tImag(k) == Plus(Times(sin(k), oddResult.real[k + 1]),
                         Times(cos(k), oddResult.imag[k + 1]))
    IN  [real |-> ArrayOf([j \in 1..n |->
                     IF j <= half THEN Plus(evenResult.real[j], tReal(j - 1))
                     ELSE Minus(evenResult.real[j - half], tReal(j - half - 1))]),
         imag |-> ArrayOf([j \in 1..n |->
                     IF j <= half THEN Plus(evenResult.imag[j], tImag(j - 1))
                     ELSE Minus(evenResult.imag[j - half], tImag(j - half - 1))])]

\* the butterfly: bins k and k + half from the two half-size transforms
Butterfly(evenResult, oddResult, n) ==
    LET half == n \div 2
        cos(k) == MathCos(MinusTwoPiTimes(k, n))
        sin(k) == MathSin(MinusTwoPiTimes(k, n))
        tReal(k) == Minus(Times(cos(k), oddResult.real[k + 1]),
                          Times(sin(k), oddResult.imag[k + 1]))
        tImag(k) == Plus(Times(sin(k), oddResult.real[k + 1]),
                         Times(cos(k), oddResult.imag[k + 1]))
    IN  [real |-> ArrayOf([j \in 1..n |->
                     IF j <= half THEN Plus(evenResult.real[j], tReal(j - 1))
                     ELSE Minus(evenResult.real[j - half], tReal(j - half - 1))]),
         imag |-> ArrayOf([j \in 1..n |->
                     IF j <= half THEN Plus(evenResult.imag[j], tImag(j - 1))
                     ELSE Minus(evenResult.imag[j - half], tImag(j - half - 1))])]

RECURSIVE fft(_)
fft(data) ==
    LET n == Len(data)
    IN  IF n <= 1 THEN [real |-> data, imag |-> ArrayOf([i \in 1..n |-> Num(0)])]
        ELSE IF ~IsPowerOfTwo(n)
        THEN \* zero-pad to the next power of two
             fft(ArrayOf([i \in 1..NextPow2(n) |-> IF i <= n THEN data[i] ELSE Num(0)]))
        ELSE Butterfly(fft(ArrayOf([i \in 1..(n \div 2) |-> data[2 * i - 1]])),   \* evens
                       fft(ArrayOf([i \in 1..(n \div 2) |-> data[2 * i]])),       \* odds
                       n)

----------------------------------------------------------------------------
(* applyWindow *)

WindowFunctionType == {"rectangular", "hanning", "hamming", "blackman"}

\* the multiplier of sample i (0-based) of n
WindowMultiplier(type, i, n) ==
    LET c1 == MathCos(TwoPiTimes(i, n - 1))          \* cos(2*PI*i / (n-1))
        c2 == MathCos(TwoPiTimes(2 * i, n - 1))      \* cos(4*PI*i / (n-1))
    IN  CASE type = "hanning"  -> Minus(Rat(1, 2), Times(Rat(1, 2), c1))
          [] type = "hamming"  -> Minus(Rat(54, 100), Times(Rat(46, 100), c1))
          [] type = "blackman" -> Plus(Minus(Rat(42, 100), Times(Rat(1, 2), c1)),
                                       Times(Rat(8, 100), c2))
          [] OTHER -> Num(1)

applyWindow(data, type) ==
    IF type = "rectangular" THEN data
    ELSE ArrayOf([i \in 1..Len(data) |->
                    Times(data[i], WindowMultiplier(type, i - 1, Len(data)))])

----------------------------------------------------------------------------
(* Waveform samples: [time |-> number, vals |-> [channel ids -> number]] *)

\* p[channel]
Get(p, channel) == IF channel \in DOMAIN p.vals THEN p.vals[channel] ELSE undefined

----------------------------------------------------------------------------
(* calculateStats *)

\* the first pass over samples i..: sum, sumSq, min, max
RECURSIVE FirstPass(_, _, _, _)
FirstPass(wf, channel, i, acc) ==
    IF i > Len(wf) THEN acc
    ELSE LET val == OrZero(Get(wf[i], channel))
         IN  FirstPass(wf, channel, i + 1,
                 [sum   |-> Plus(acc.sum, val),
                  sumSq |-> Plus(acc.sumSq, Times(val, val)),
                  min   |-> IF Lt(val, acc.min) THEN val ELSE acc.min,
                  max   |-> IF Gt(val, acc.max) THEN val ELSE acc.max])

\* (mutant) a single-pass variant that never subtracts the average
RECURSIVE SecondPassNoMean(_, _, _, _, _)
SecondPassNoMean(wf, channel, average, i, sumSqDiff) ==
    IF i > Len(wf) THEN sumSqDiff
    ELSE LET val == OrZero(Get(wf[i], channel))
         IN  SecondPassNoMean(wf, channel, average, i + 1, Plus(sumSqDiff, Times(val, val)))

\* the second pass over samples i..: the sum of squared deviations from the average
RECURSIVE SecondPass(_, _, _, _, _)
SecondPass(wf, channel, average, i, sumSqDiff) ==
    IF i > Len(wf) THEN sumSqDiff
    ELSE LET val  == OrZero(Get(wf[i], channel))
             diff == Minus(val, average)
         IN  SecondPass(wf, channel, average, i + 1, Plus(sumSqDiff, Times(diff, diff)))

\* the record built from the two passes' sums
StatsRecord(channel, p1, average, sumSqDiff, n) ==
    [channelId |-> channel, min |-> p1.min, max |-> p1.max, average |-> average,
     rms |-> MathSqrt(Over(p1.sumSq, n)),
     acRms |-> MathSqrt(Over(sumSqDiff, n)),
     dominantFrequency |-> Num(0)]

\* the second pass, run once the first has given the average
AfterFirstPass(wf, channel, p1, average) ==
    StatsRecord(channel, p1, average, SecondPass(wf, channel, average, 1, Num(0)),
                Num(Len(wf)))

ChannelStatsOf(wf, channel) ==
    LET p1 == FirstPass(wf, channel, 1,
                  [sum |-> Num(0), sumSq |-> Num(0), min |-> Infinity, max |-> NegInfinity])
    IN  AfterFirstPass(wf, channel, p1, Over(p1.sum, Num(Len(wf))))

\* (mutant) the last channel of the list is skipped
calculateStatsDropLast(wf, chans) ==
    IF Len(wf) = 0 THEN <<>>
    ELSE ArrayOf([i \in 1..(Len(chans) - 1) |-> ChannelStatsOf(wf, chans[i])])

calculateStats(wf, chans) ==
    IF Len(wf) = 0 THEN <<>>
    ELSE ArrayOf([i \in 1..Len(chans) |-> ChannelStatsOf(wf, chans[i])])

----------------------------------------------------------------------------
(* performFFTAnalysis *)

\* the amplitude sequence of a channel: waveform.map(p => p[channel] || 0)
Amplitudes(wf, channel) == ArrayOf([i \in 1..Len(wf) |-> OrZero(Get(wf[i], channel))])

\* the magnitude of bin i (0-based): sqrt(re*re + im*im) * (2 / real.length)
Magnitude(spectrum, i) ==
    LET re == spectrum.real[i + 1]
        im == spectrum.imag[i + 1]
    IN  Times(MathSqrt(Plus(Times(re, re), Times(im, im))),
              Over(Num(2), Num(Len(spectrum.real))))

\* the magnitudes of bins 0 .. floor(real.length / 2) - 1
Magnitudes(spectrum) ==
    ArrayOf([j \in 1..(Len(spectrum.real) \div 2) |-> Magnitude(spectrum, j - 1)])

\* (mutant) the scan also lets bin 0 (DC) win
RECURSIVE DominantScanWithDC(_, _, _, _, _, _)
DominantScanWithDC(mags, rate, len, i, maxMag, domFreq) ==
    IF i >= Len(mags) THEN domFreq
    ELSE IF Gt(mags[i + 1], maxMag)
         THEN DominantScanWithDC(mags, rate, len, i + 1, mags[i + 1],
                                 Over(Times(Num(i), rate), Num(len)))
         ELSE DominantScanWithDC(mags, rate, len, i + 1, maxMag, domFreq)

\* the loop over bins i .. halfN - 1 (0-based) that keeps maxMag and domFreq
RECURSIVE DominantScan(_, _, _, _, _, _)
DominantScan(mags, rate, len, i, maxMag, domFreq) ==
    IF i >= Len(mags) THEN domFreq
    ELSE IF i > 0 /\ Gt(mags[i + 1], maxMag)
         THEN DominantScan(mags, rate, len, i + 1, mags[i + 1],
                           Over(Times(Num(i), rate), Num(len)))
         ELSE DominantScan(mags, rate, len, i + 1, maxMag, domFreq)

\* the magnitudes and the dominant frequency of one transformed channel
SpectrumSummary(mags, rate, len) ==
    [magnitudes |-> mags,
     domFreq    |-> DominantScan(mags, rate, len, 0, Num(-1), Num(0))]

SpectrumOf(spectrum, rate) ==
    SpectrumSummary(Magnitudes(spectrum), rate, Len(spectrum.real))

\* what channels.forEach computes for one channel
ChannelSpectrum(wf, rate, channel, type) ==
    SpectrumOf(fft(applyWindow(Amplitudes(wf, channel), type)), rate)

\* (mutant) the bins are built only for the first channel of the list
FrequencyDataFirstOnly(chans, perChannel, frequencyResolution) ==
    [j \in 1..Len(perChannel[chans[1]].magnitudes) |->
        [frequency |-> Times(Num(j - 1), frequencyResolution),
         vals      |-> [ch \in {chans[1]} |-> perChannel[ch].magnitudes[j]]]]

\* the shared frequency axis: bin i (0-based) sits at i * frequencyResolution
FrequencyData(chans, perChannel, frequencyResolution) ==
    [j \in 1..Len(perChannel[chans[1]].magnitudes) |->
        [frequency |-> Times(Num(j - 1), frequencyResolution),
         vals      |-> [ch \in {chans[k] : k \in 1..Len(chans)} |->
                           perChannel[ch].magnitudes[j]]]]

\* the result assembled from the per-channel spectra
AssembleFFT(chans, perChannel, fftLength, frequencyResolution) ==
    IF Len(chans) = 0 \/ chans[1] = ""
    THEN [fftData |-> <<>>, dominantFreqs |-> <<>>, fftPoints |-> Num(fftLength),
          frequencyResolution |-> frequencyResolution]
    ELSE [fftData |-> FrequencyData(chans, perChannel, frequencyResolution),
          dominantFreqs |-> [ch \in DOMAIN perChannel |-> perChannel[ch].domFreq],
          fftPoints |-> Num(fftLength),
          frequencyResolution |-> frequencyResolution]

performFFTAnalysis(wf, rate, chans, type) ==
    IF Len(wf) = 0
    THEN [fftData |-> <<>>, dominantFreqs |-> <<>>, fftPoints |-> Num(0),
          frequencyResolution |-> Num(0)]
    ELSE AssembleFFT(chans,
                     ObjectOf([ch \in {chans[k] : k \in 1..Len(chans)} |->
                                  ChannelSpectrum(wf, rate, ch, type)]),
                     NextPow2(Len(wf)),
                     Over(rate, Num(NextPow2(Len(wf)))))

----------------------------------------------------------------------------
(* Angles returned by Math.atan2.  An angle is kept exactly, as the         *)
(* direction it points in and a number of whole turns:                      *)
(*   [t = "angle", x, y, k]  is  arg(x, y) + k turns,                       *)
(* where arg(x, y) is the angle of the vector (x, y) # (0, 0), greater than *)
(* -PI and at most PI.  -PI itself is arg(-1, 0) - 1 turn.  The same record *)
(* holds an angle in degrees: radians * 180 / Math.PI changes the unit only. *)

Angle(x, y, k) == [t |-> "angle", x |-> x, y |-> y, k |-> k]

\* the sign of arg(x, y): 1 in the upper half plane and at PI, 0 at angle 0
ArgSgn(x, y) == IF Sgn(y) # 0 THEN Sgn(y) ELSE IF Sgn(x) < 0 THEN 1 ELSE 0

\* arg(x, y) = PI
IsHalfTurn(x, y) == Sgn(y) = 0 /\ Sgn(x) < 0

\* Math.atan2(y, x) for finite y and x: for y = +0 or -0 the result is +0 or -0
\* when x is positive or +0, and PI or -PI when x is negative or -0
MathAtan2(y, x) ==
    IF ~IsFinite(y) \/ ~IsFinite(x) THEN NaN
    ELSE IF IsZero(y)
         THEN (IF SignBit(x) > 0 THEN Angle(Num(1), Num(0), 0)
               ELSE Angle(Num(-1), Num(0), IF y.s < 0 THEN -1 ELSE 0))
    ELSE Angle(Approx(x), Approx(y), 0)

\* a - b for two angles: the direction is that of (a.x + i a.y) * (b.x - i b.y);
\* arg(a) - arg(b) is a turn more than that direction's arg when it exceeds PI,
\* a turn less when it is -PI or below
AngleMinus(a, b) ==
    IF a.t # "angle" \/ b.t # "angle" THEN NaN
    ELSE LET px == QAdd(QMul(a.x, b.x), QMul(a.y, b.y))
             py == QAdd(QMul(a.y, b.x), QNeg(QMul(a.x, b.y)))
             sa == ArgSgn(a.x, a.y)
             sb == ArgSgn(b.x, b.y)
             sp == ArgSgn(px, py)
             c  == IF sa > 0 /\ sb < 0 /\ sp < 0 THEN 1
                   ELSE IF sa <= 0 /\ sb > 0 /\ sp > 0 THEN -1
                   ELSE 0
         IN  Angle(px, py, a.k - b.k + c)

----------------------------------------------------------------------------
(* calculatePowerQuality *)

searchRadius == 2

MaxHarmonicOrder == 15

\* data.forEach(x => sumSq += x * x), from element i (1-based) on
RECURSIVE SumSquares(_, _, _)
SumSquares(data, i, sumSq) ==
    IF i > Len(data) THEN sumSq
    ELSE SumSquares(data, i + 1, Plus(sumSq, Times(data[i], data[i])))

\* phases.push(Math.atan2(imag[i], real[i])) for the bins 0 .. halfN - 1
Phases(spectrum) ==
    ArrayOf([j \in 1..(Len(spectrum.real) \div 2) |->
                MathAtan2(spectrum.imag[j], spectrum.real[j])])

\* (mutant) the fundamental search skips bin 0 only
RECURSIVE FundamentalScanFromOne(_, _, _, _)
FundamentalScanFromOne(mags, i, maxMag, peakIndex) ==
    IF i >= Len(mags) THEN [maxMag |-> maxMag, peakIndex |-> peakIndex]
    ELSE IF i > 0 /\ Gt(mags[i + 1], maxMag)
         THEN FundamentalScanFromOne(mags, i + 1, mags[i + 1], i)
         ELSE FundamentalScanFromOne(mags, i + 1, maxMag, peakIndex)

\* the search for the fundamental: the largest magnitude among the bins i > 1
RECURSIVE FundamentalScan(_, _, _, _)
FundamentalScan(mags, i, maxMag, peakIndex) ==
    IF i >= Len(mags) THEN [maxMag |-> maxMag, peakIndex |-> peakIndex]
    ELSE IF i > 1 /\ Gt(mags[i + 1], maxMag)
         THEN FundamentalScan(mags, i + 1, mags[i + 1], i)
         ELSE FundamentalScan(mags, i + 1, maxMag, peakIndex)

\* the search of idealTargetIdx - 2 .. idealTargetIdx + 2 for the largest bin
RECURSIVE PeakSearch(_, _, _, _, _)
PeakSearch(mags, idealTargetIdx, offset, bestMag, bestIdx) ==
    IF offset > searchRadius THEN [bestMag |-> bestMag, bestIdx |-> bestIdx]
    ELSE IF /\ idealTargetIdx + offset > 0
            /\ idealTargetIdx + offset < Len(mags)
            /\ Gt(mags[idealTargetIdx + offset + 1], bestMag)
         THEN PeakSearch(mags, idealTargetIdx, offset + 1,
                         mags[idealTargetIdx + offset + 1], idealTargetIdx + offset)
         ELSE PeakSearch(mags, idealTargetIdx, offset + 1, bestMag, bestIdx)

HarmonicInfo(order, best, maxMag, rate, len) ==
    [order      |-> order,
     frequency  |-> Over(Times(Num(best.bestIdx), rate), Num(len)),
     magnitude  |-> best.bestMag,
     percentage |-> Times(Over(best.bestMag, maxMag), Num(100))]

\* (mutant) a harmonic is pushed for every order, in range or not
RECURSIVE HarmonicLoopAll(_, _, _, _, _, _, _)
HarmonicLoopAll(mags, fund, rate, len, order, harmonics, harmonicsSumSq) ==
    IF order > MaxHarmonicOrder
    THEN [harmonics |-> harmonics, harmonicsSumSq |-> harmonicsSumSq]
    ELSE HarmonicLoopAll(mags, fund, rate, len, order + 1,
             Append(harmonics,
                    HarmonicInfo(order,
                                 PeakSearch(mags, fund.peakIndex * order, -searchRadius,
                                            Num(-1), fund.peakIndex * order),
                                 fund.maxMag, rate, len)),
             harmonicsSumSq)

\* one turn of the loop over the orders, best being the result of the search
RECURSIVE HarmonicLoop(_, _, _, _, _, _, _)
HarmonicStep(mags, fund, rate, len, order, harmonics, harmonicsSumSq, best) ==
    IF best.bestIdx < Len(mags)
    THEN HarmonicLoop(mags, fund, rate, len, order + 1,
                      Append(harmonics, HarmonicInfo(order, best, fund.maxMag, rate, len)),
                      IF order > 1
                      THEN Plus(harmonicsSumSq, Times(best.bestMag, best.bestMag))
                      ELSE harmonicsSumSq)
    ELSE HarmonicLoop(mags, fund, rate, len, order + 1, harmonics, harmonicsSumSq)

\* for (let order = 1; order <= 15; order++)
HarmonicLoop(mags, fund, rate, len, order, harmonics, harmonicsSumSq) ==
    IF order > MaxHarmonicOrder
    THEN [harmonics |-> harmonics, harmonicsSumSq |-> harmonicsSumSq]
    ELSE HarmonicStep(mags, fund, rate, len, order, harmonics, harmonicsSumSq,
                      PeakSearch(mags, fund.peakIndex * order, -searchRadius,
                                 Num(-1), fund.peakIndex * order))

\* the PhaseResult, from the fundamental and the harmonics found
PhaseResult(phaseId, rms, phases, fund, harm, rate, len) ==
    [phaseId   |-> phaseId,
     rms       |-> rms,
     frequency |-> Over(Times(Num(fund.peakIndex), rate), Num(len)),
     angleRad  |-> IF fund.peakIndex < Len(phases) THEN phases[fund.peakIndex + 1]
                   ELSE undefined,
     angleDeg  |-> Num(0),
     thd       |-> Times(Over(MathSqrt(harm.harmonicsSumSq), fund.maxMag), Num(100)),
     harmonics |-> harm.harmonics]

PhaseOfFundamental(phaseId, rms, mags, phases, fund, rate, len) ==
    PhaseResult(phaseId, rms, phases, fund,
                HarmonicLoop(mags, fund, rate, len, 1, <<>>, Num(0)), rate, len)

PhaseOfSpectrum(phaseId, rms, mags, phases, rate, len) ==
    PhaseOfFundamental(phaseId, rms, mags, phases,
                       FundamentalScan(mags, 0, Num(-1), 0), rate, len)

PhaseOfTransform(phaseId, rms, spectrum, rate) ==
    PhaseOfSpectrum(phaseId, rms, Magnitudes(spectrum), Phases(spectrum), rate,
                    Len(spectrum.real))

\* n is dataU.length, for every phase
processPhase(phaseId, data, n, rate) ==
    PhaseOfTransform(phaseId,
                     MathSqrt(Over(SumSquares(data, 1, Num(0)), Num(n))),
                     fft(applyWindow(data, "hanning")),
                     rate)

\* (mutant) the wrap also moves -180 up to 180
normalizeAngleHalfOpen(rad) ==
    IF rad.t # "angle" THEN NaN ELSE Angle(rad.x, rad.y, 0)

\* deg = (rad * 180 / Math.PI) % 360, the remainder taking the sign of rad;
\* if (deg > 180) deg -= 360; if (deg < -180) deg += 360
normalizeAngle(rad) ==
    IF rad.t # "angle" THEN NaN
    ELSE LET sa  == ArgSgn(rad.x, rad.y)
             rem == IF rad.k > 0 THEN (IF sa < 0 THEN 1 ELSE 0)
                    ELSE IF rad.k < 0 THEN (IF sa > 0 THEN -1 ELSE 0)
                    ELSE 0
             k1  == IF rem > 0 THEN rem - 1 ELSE rem
             \* arg - 360 is below -180 unless arg is 180
             k2  == IF k1 < 0 /\ ~IsHalfTurn(rad.x, rad.y) THEN k1 + 1 ELSE k1
         IN  Angle(rad.x, rad.y, k2)

\* phase.angleDeg = normalizeAngle(phase.angleRad - refAngle)
WithAngleDeg(phase, refAngle) ==
    [phase EXCEPT !.angleDeg = normalizeAngle(AngleMinus(phase.angleRad, refAngle))]

\* (mutant) the deviation is divided by the largest RMS
UnbalanceOfMax(rmsU, rmsV, rmsW, avgRms) ==
    IF Gt(avgRms, Num(0))
    THEN Times(Over(MathMax(MathAbs(Minus(rmsU, avgRms)),
                            MathAbs(Minus(rmsV, avgRms)),
                            MathAbs(Minus(rmsW, avgRms))),
                    MathMax(rmsU, rmsV, rmsW)), Num(100))
    ELSE Num(0)

\* avgRms > 0 ? (maxDev / avgRms) * 100 : 0
Unbalance(rmsU, rmsV, rmsW, avgRms) ==
    IF Gt(avgRms, Num(0))
    THEN Times(Over(MathMax(MathAbs(Minus(rmsU, avgRms)),
                            MathAbs(Minus(rmsV, avgRms)),
                            MathAbs(Minus(rmsW, avgRms))),
                    avgRms), Num(100))
    ELSE Num(0)

PowerAnalysisResult(phaseU, phaseV, phaseW) ==
    [fundamentalFreq |-> phaseU.frequency,
     phases    |-> <<WithAngleDeg(phaseU, phaseU.angleRad),
                     WithAngleDeg(phaseV, phaseU.angleRad),
                     WithAngleDeg(phaseW, phaseU.angleRad)>>,
     unbalance |-> Unbalance(phaseU.rms, phaseV.rms, phaseW.rms,
                             Over(Plus(Plus(phaseU.rms, phaseV.rms), phaseW.rms),
                                  Num(3)))]

\* (mutant) the sign of the third phase is lost
DataWPlus(dataU, dataV) ==
    ArrayOf([i \in 1..Len(dataU) |-> Plus(dataU[i], dataV[i])])

\* dataW = dataU.map((u, i) => -u - dataV[i])
DataW(dataU, dataV) ==
    ArrayOf([i \in 1..Len(dataU) |-> Minus(Neg(dataU[i]), dataV[i])])

PhasesOf(dataU, dataV, rate) ==
    PowerAnalysisResult(processPhase("U", dataU, Len(dataU), rate),
                        processPhase("V", dataV, Len(dataU), rate),
                        processPhase("W", DataW(dataU, dataV), Len(dataU), rate))

calculatePowerQuality(wf, rate, u, v) ==
    PhasesOf(Amplitudes(wf, u), Amplitudes(wf, v), rate)

----------------------------------------------------------------------------
(* Strings.  A string is a sequence of one-character strings, so that it    *)
(* can be scanned; the texts parsed here are ASCII.                         *)

Digits == <<"0", "1", "2", "3", "4", "5", "6", "7", "8", "9">>

UpperCase == <<"A", "B", "C", "D", "E", "F", "G", "H", "I", "J", "K", "L", "M",
               "N", "O", "P", "Q", "R", "S", "T", "U", "V", "W", "X", "Y", "Z">>

LowerCase == <<"a", "b", "c", "d", "e", "f", "g", "h", "i", "j", "k", "l", "m",
               "n", "o", "p", "q", "r", "s", "t", "u", "v", "w", "x", "y", "z">>

\* \d
IsDigit(c) == \E d \in 1..10 : Digits[d] = c

DigitValue(c) == (CHOOSE d \in 1..10 : Digits[d] = c) - 1

\* [a-zA-Z]
IsLetter(c) == \E k \in 1..26 : UpperCase[k] = c \/ LowerCase[k] = c

\* \s, and the characters trim() removes
IsSpace(c) == c \in {" ", "\t", "\n", "\r"}

CharToLower(c) ==
    IF \E k \in 1..26 : UpperCase[k] = c
    THEN LowerCase[CHOOSE k \in 1..26 : UpperCase[k] = c]
    ELSE c

toLowerCase(str) == ArrayOf([i \in 1..Len(str) |-> CharToLower(str[i])])

\* the character at position i (1-based), "" outside the string
At(str, i) == IF i >= 1 /\ i <= Len(str) THEN str[i] ELSE ""

\* the first position from i on that holds no white space
RECURSIVE SkipSpaces(_, _)
SkipSpaces(str, i) == IF IsSpace(At(str, i)) THEN SkipSpaces(str, i + 1) ELSE i

\* the position after the run of letters, of digits, of digits and dots at i
RECURSIVE LettersEnd(_, _)
LettersEnd(str, i) == IF IsLetter(At(str, i)) THEN LettersEnd(str, i + 1) ELSE i

RECURSIVE DigitsEnd(_, _)
DigitsEnd(str, i) == IF IsDigit(At(str, i)) THEN DigitsEnd(str, i + 1) ELSE i

RECURSIVE DigitsDotsEnd(_, _)
DigitsDotsEnd(str, i) ==
    IF IsDigit(At(str, i)) \/ At(str, i) = "." THEN DigitsDotsEnd(str, i + 1) ELSE i

\* whether word stands at position i of str
HasAt(str, i, word) == \A j \in 1..Len(word) : At(str, i + j - 1) = word[j]

\* the same, ignoring case; word is in lower case
HasAtIgnoringCase(str, i, word) ==
    \A j \in 1..Len(word) : CharToLower(At(str, i + j - 1)) = word[j]

\* str.includes(word)
includes(str, word) == \E i \in 1..(Len(str) + 1) : HasAt(str, i, word)

\* str.startsWith(word)
startsWith(str, word) == HasAt(str, 1, word)

\* str.trim()
RECURSIVE TrimEnd(_)
TrimEnd(str) ==
    IF Len(str) > 0 /\ IsSpace(str[Len(str)]) THEN TrimEnd(SubSeq(str, 1, Len(str) - 1))
    ELSE str

trim(str) == TrimEnd(SubSeq(str, SkipSpaces(str, 1), Len(str)))

\* the pieces of str[lo .. hi] between its line feeds, found by halving the
\* range: the last piece of the left half continues in the first of the right
GlueLines(left, right) ==
    SubSeq(left, 1, Len(left) - 1) \o <<left[Len(left)] \o right[1]>>
        \o SubSeq(right, 2, Len(right))

RECURSIVE LinesBetween(_, _, _)
LinesBetween(str, lo, hi) ==
    IF lo > hi THEN <<<<>>>>
    ELSE IF lo = hi THEN (IF str[lo] = "\n" THEN <<<<>>, <<>>>> ELSE <<<<str[lo]>>>>)
    ELSE GlueLines(LinesBetween(str, lo, (lo + hi) \div 2),
                   LinesBetween(str, (lo + hi) \div 2 + 1, hi))

\* a carriage return belongs to the separator only when a line feed follows it
WithoutReturn(pieces, k) ==
    IF k < Len(pieces) /\ Len(pieces[k]) > 0 /\ pieces[k][Len(pieces[k])] = "\r"
    THEN SubSeq(pieces[k], 1, Len(pieces[k]) - 1) ELSE pieces[k]

LinesOfPieces(pieces) == ArrayOf([k \in 1..Len(pieces) |-> WithoutReturn(pieces, k)])

\* text.split(/\r?\n/)
SplitLines(str) == LinesOfPieces(LinesBetween(str, 1, Len(str)))

\* str.split(sep) for a one-character separator, or for the set [:=]
RECURSIVE SplitOn(_, _, _, _, _)
SplitOn(str, seps, i, parts, part) ==
    IF i > Len(str) THEN Append(parts, part)
    ELSE IF str[i] \in seps THEN SplitOn(str, seps, i + 1, Append(parts, part), <<>>)
         ELSE SplitOn(str, seps, i + 1, parts, Append(part, str[i]))

split(str, seps) == SplitOn(str, seps, 1, <<>>, <<>>)

\* lines.join(sep). Len(str) < 0 is never true: naming str in the test has
\* the string built at every step instead of all at once at the end (likewise
\* the accumulators of HeaderScan and DataLoop)
RECURSIVE JoinFrom(_, _, _, _)
JoinFrom(lines, sep, i, str) ==
    IF i > Len(lines) \/ Len(str) < 0 THEN str
    ELSE JoinFrom(lines, sep, i + 1, (IF i = 1 THEN str ELSE str \o sep) \o lines[i])

join(lines, sep) == JoinFrom(lines, sep, 1, <<>>)

\* (mutant) every line is kept
sliceAll(lines, end) == lines

\* lines.slice(0, end)
slice(lines, end) == SubSeq(lines, 1, IF end < Len(lines) THEN end ELSE Len(lines))

----------------------------------------------------------------------------
(* parseFloat *)

\* the integer a run of digits str[from .. to - 1] spells
RECURSIVE DecimalValue(_, _, _, _)
DecimalValue(str, from, to, value) ==
    IF from >= to THEN value
    ELSE DecimalValue(str, from + 1, to, 10 * value + DigitValue(str[from]))

\* the number spelt by a sign, the digits before and after the dot and an exponent
DecimalNumber(sign, int, frac, nFrac, exp) ==
    IF int = 0 /\ frac = 0 THEN Zero(sign)
    ELSE IF exp >= nFrac THEN Num(sign * (int * 10^nFrac + frac) * 10^(exp - nFrac))
    ELSE Fin(sign * (int * 10^nFrac + frac), 0, 10^(nFrac - exp))

\* the digits from i1 on: integer part [i1, i2), fraction [i2 + 1, i3), and an
\* exponent at i3 when e or E is followed by digits, with or without a sign
ParseDecimal(str, sign, i1, i2, i3) ==
    IF (i2 - i1) + (IF At(str, i2) = "." THEN i3 - i2 - 1 ELSE 0) = 0 THEN NaN
    ELSE DecimalNumber(
             sign,
             DecimalValue(str, i1, i2, 0),
             IF At(str, i2) = "." THEN DecimalValue(str, i2 + 1, i3, 0) ELSE 0,
             IF At(str, i2) = "." THEN i3 - i2 - 1 ELSE 0,
             IF At(str, i3) \in {"e", "E"}
             THEN (IF IsDigit(At(str, i3 + 1))
                   THEN DecimalValue(str, i3 + 1, DigitsEnd(str, i3 + 1), 0)
                   ELSE IF At(str, i3 + 1) \in {"+", "-"} /\ IsDigit(At(str, i3 + 2))
                   THEN (IF At(str, i3 + 1) = "-" THEN -1 ELSE 1)
                        * DecimalValue(str, i3 + 2, DigitsEnd(str, i3 + 2), 0)
                   ELSE 0)
             ELSE 0)

ParseSigned(str, sign, i1) ==
    IF HasAt(str, i1, <<"I", "n", "f", "i", "n", "i", "t", "y">>)
    THEN [Infinity EXCEPT !.s = sign]
    ELSE ParseDecimal(str, sign, i1, DigitsEnd(str, i1),
                      IF At(str, DigitsEnd(str, i1)) = "."
                      THEN DigitsEnd(str, DigitsEnd(str, i1) + 1)
                      ELSE DigitsEnd(str, i1))

ParseFrom(str, i0) ==
    ParseSigned(str, IF At(str, i0) = "-" THEN -1 ELSE 1,
                IF At(str, i0) \in {"+", "-"} THEN i0 + 1 ELSE i0)

\* parseFloat(str): the longest decimal literal after the leading white space
parseFloat(str) == ParseFrom(str, SkipSpaces(str, 1))

----------------------------------------------------------------------------
(* parseOscilloscopeCsv.  Line and column indices are 0-based as in the     *)
(* source; line i of the source is lines[i + 1] here.                       *)

HeaderLimit == 50

Comma == <<",">>

TimeWord == <<"t", "i", "m", "e">>

\* `ch${i}`
ChannelNames == <<"ch0", "ch1", "ch2", "ch3">>

\* what /(?:Data|Vert)?\s*(?:Unit|Uint)\s*[:=]\s*([a-zA-Z]+)/i captures when its
\* Unit or Uint stands at position q: the run of letters after the separator;
\* <<>> when the expression does not match there
UnitCaptureAt(str, q) ==
    IF /\ \/ HasAtIgnoringCase(str, q, <<"u", "n", "i", "t">>)
          \/ HasAtIgnoringCase(str, q, <<"u", "i", "n", "t">>)
       /\ At(str, SkipSpaces(str, q + 4)) \in {":", "="}
       /\ IsLetter(At(str, SkipSpaces(str, SkipSpaces(str, q + 4) + 1)))
    THEN SubSeq(str, SkipSpaces(str, SkipSpaces(str, q + 4) + 1),
                LettersEnd(str, SkipSpaces(str, SkipSpaces(str, q + 4) + 1)) - 1)
    ELSE <<>>

\* headerChunk.match(...): the leftmost match, from position q on
RECURSIVE UnitMatch(_, _)
UnitMatch(str, q) ==
    IF q > Len(str) THEN <<>>
    ELSE IF UnitCaptureAt(str, q) # <<>> THEN UnitCaptureAt(str, q)
    ELSE UnitMatch(str, q + 1)

\* (mutant) no default unit
UnitOfNoDefault(unitMatch) == trim(unitMatch)

UnitOf(unitMatch) == IF unitMatch # <<>> THEN trim(unitMatch) ELSE <<"V">>

\* /Sampling\s*Rate\s*[:=]\s*([\d\.]+)\s*([kM]?Sa\/s)/i with Sampling at r, the
\* number at c .. d - 1 and the unit from e on, its prefix letter taken when
\* Sa/s follows it
RateParts(str, r, c, d, e) ==
    IF /\ HasAtIgnoringCase(str, r, <<"s", "a", "m", "p", "l", "i", "n", "g">>)
       /\ HasAtIgnoringCase(str, SkipSpaces(str, r + 8), <<"r", "a", "t", "e">>)
       /\ At(str, SkipSpaces(str, SkipSpaces(str, r + 8) + 4)) \in {":", "="}
       /\ d > c
       /\ \/ HasAtIgnoringCase(str, e, <<"s", "a", "/", "s">>)
          \/ /\ CharToLower(At(str, e)) \in {"k", "m"}
             /\ HasAtIgnoringCase(str, e + 1, <<"s", "a", "/", "s">>)
    THEN [matched |-> TRUE,
          value   |-> SubSeq(str, c, d - 1),
          unit    |-> toLowerCase(SubSeq(str, e,
                         IF HasAtIgnoringCase(str, e, <<"s", "a", "/", "s">>)
                         THEN e + 3 ELSE e + 4))]
    ELSE [matched |-> FALSE, value |-> <<>>, unit |-> <<>>]

RateNumberAt(str, r, c) ==
    RateParts(str, r, c, DigitsDotsEnd(str, c), SkipSpaces(str, DigitsDotsEnd(str, c)))

RateCaptureAt(str, r) ==
    RateNumberAt(str, r,
                 SkipSpaces(str, SkipSpaces(str, SkipSpaces(str, r + 8) + 4) + 1))

RECURSIVE RateMatch(_, _)
RateMatch(str, r) ==
    IF r > Len(str) THEN [matched |-> FALSE, value |-> <<>>, unit |-> <<>>]
    ELSE IF RateCaptureAt(str, r).matched THEN RateCaptureAt(str, r)
    ELSE RateMatch(str, r + 1)

\* (mutant) the k and M prefixes of the unit are ignored
RateOfIgnoringPrefix(rateMatch) ==
    IF ~rateMatch.matched THEN Num(1000) ELSE parseFloat(rateMatch.value)

\* samplingRateHz: 1000 unless the rate line matched
RateOf(rateMatch) ==
    IF ~rateMatch.matched THEN Num(1000)
    ELSE IF includes(rateMatch.unit, <<"k", "s", "a">>)
         THEN Times(parseFloat(rateMatch.value), Num(1000))
    ELSE IF includes(rateMatch.unit, <<"m", "s", "a">>)
         THEN Times(parseFloat(rateMatch.value), Num(1000000))
    ELSE parseFloat(rateMatch.value)

\* the start of the run of letters and white space that ends the key
RECURSIVE TrailingWords(_, _)
TrailingWords(key, i) ==
    IF i >= 1 /\ (IsLetter(key[i]) \/ IsSpace(key[i])) THEN TrailingWords(key, i - 1)
    ELSE i + 1

\* key.match(/([a-zA-Z\s]+)$/), and the key it leaves
KeyOf(key) ==
    IF TrailingWords(key, Len(key)) <= Len(key)
    THEN trim(SubSeq(key, TrailingWords(key, Len(key)), Len(key)))
    ELSE key

\* if (key && val) rawHeader[key] = val
Put(rawHeader, key, val) ==
    IF key # <<>> /\ val # <<>>
    THEN ObjectOf([k \in DOMAIN rawHeader \cup {key} |->
                      IF k = key THEN val ELSE rawHeader[k]])
    ELSE rawHeader

KeyValue(parts, rawHeader) ==
    IF Len(parts) >= 2
    THEN Put(rawHeader, KeyOf(trim(parts[1])),
             trim(join(SubSeq(parts, 2, Len(parts)), <<":">>)))
    ELSE rawHeader

\* one line of the header scan; found = [dataStartIndex, headerLineIndex, rawHeader]
HeaderLine(trimLine, i, found) ==
    IF trimLine = <<>> THEN found
    ELSE IF IsDigit(At(trimLine, 1)) /\ includes(trimLine, Comma)
         THEN (IF found.dataStartIndex = 0 THEN [found EXCEPT !.dataStartIndex = i]
               ELSE found)
    ELSE IF startsWith(toLowerCase(trimLine), TimeWord) /\ includes(trimLine, Comma)
         THEN [found EXCEPT !.headerLineIndex = i, !.dataStartIndex = i + 1]
    ELSE [found EXCEPT !.rawHeader = KeyValue(split(trimLine, {":", "="}), @)]

\* lines.slice(0, 50).forEach((line, i) => ...)
RECURSIVE HeaderScan(_, _, _)
HeaderScan(lines, i, found) ==
    IF i >= Len(lines) \/ i >= HeaderLimit \/ found.dataStartIndex < 0 THEN found
    ELSE HeaderScan(lines, i + 1, HeaderLine(trim(lines[i + 1]), i, found))

\* the fallback search for the data start, run when dataStartIndex is still 0:
\* the loop stops at the first line whose first field is a number
FallbackHit(lines, i) ==
    /\ includes(lines[i + 1], Comma)
    /\ ~isNaN(parseFloat(split(lines[i + 1], {","})[1]))

FallbackFound(lines, hits, found) ==
    IF hits = {} THEN found
    ELSE LET i == CHOOSE h \in hits : \A other \in hits : h <= other
         IN  [found EXCEPT !.dataStartIndex = i,
                           !.headerLineIndex =
                               IF i > 0 /\ includes(toLowerCase(lines[i]), TimeWord)
                               THEN i - 1 ELSE @]

FallbackSearch(lines, found) ==
    FallbackFound(lines, {i \in 0..(Len(lines) - 1) : FallbackHit(lines, i)}, found)

DataStart(lines, found) ==
    IF found.dataStartIndex = 0 THEN FallbackSearch(lines, found) ELSE found

\* headerCols.findIndex(c => c.includes('time') || c === 's' || c === 'second')
RECURSIVE FindTimeColumn(_, _)
FindTimeColumn(cols, j) ==
    IF j >= Len(cols) THEN -1
    ELSE IF \/ includes(toLowerCase(trim(cols[j + 1])), TimeWord)
            \/ toLowerCase(trim(cols[j + 1])) = <<"s">>
            \/ toLowerCase(trim(cols[j + 1])) = <<"s", "e", "c", "o", "n", "d">>
         THEN j
    ELSE FindTimeColumn(cols, j + 1)

\* the first field of a row, as a number
FirstField(line) == parseFloat(split(line, {","})[1])

\* the first column is the time when it rises from the first row to the second
\* and from the second to the row 20 lines on (the last line when there are fewer)
RampColumn(firstRow0, secondRow0, lastRow0) ==
    IF /\ ~isNaN(firstRow0) /\ ~isNaN(secondRow0) /\ ~isNaN(lastRow0)
       /\ Gt(secondRow0, firstRow0) /\ Gt(lastRow0, secondRow0)
    THEN 0 ELSE -1

\* (mutant) the rows are examined whatever the number of lines after them
TimeColumnUnguarded(lines, found, headerColumn) ==
    IF headerColumn = -1 /\ found.dataStartIndex + 1 < Len(lines)
    THEN RampColumn(FirstField(lines[found.dataStartIndex + 1]),
                    FirstField(lines[found.dataStartIndex + 2]),
                    FirstField(lines[(IF found.dataStartIndex + 20 < Len(lines) - 1
                                      THEN found.dataStartIndex + 20
                                      ELSE Len(lines) - 1) + 1]))
    ELSE headerColumn

\* timeColumnIndex, headerColumn being what the header line gave
TimeColumn(lines, found, headerColumn) ==
    IF headerColumn = -1 /\ found.dataStartIndex < Len(lines) - 5
    THEN RampColumn(FirstField(lines[found.dataStartIndex + 1]),
                    FirstField(lines[found.dataStartIndex + 2]),
                    FirstField(lines[(IF found.dataStartIndex + 20 < Len(lines) - 1
                                      THEN found.dataStartIndex + 20
                                      ELSE Len(lines) - 1) + 1]))
    ELSE headerColumn

HeaderColumn(lines, found) ==
    IF found.headerLineIndex # -1
    THEN FindTimeColumn(split(lines[found.headerLineIndex + 1], {","}), 0)
    ELSE -1

\* parts.map(p => parseFloat(p)).filter(n => !isNaN(n))
RECURSIVE NumericParts(_, _, _)
NumericParts(parts, j, kept) ==
    IF j > Len(parts) THEN kept
    ELSE NumericParts(parts, j + 1,
                      IF isNaN(parseFloat(parts[j])) THEN kept
                      ELSE Append(kept, parseFloat(parts[j])))

\* the sample of a row: chIdx channels, the time column left out of them
Point(numericParts, timeSeconds, timeColumnIndex, chIdx) ==
    [time |-> timeSeconds,
     vals |-> ObjectOf([ch \in {ChannelNames[k] : k \in 1..chIdx} |->
                 numericParts[LET k == CHOOSE k \in 1..chIdx : ChannelNames[k] = ch
                              IN  IF timeColumnIndex # -1 /\ k - 1 >= timeColumnIndex
                                  THEN k + 1 ELSE k]])]

\* (mutant) the synthesized time is the sample count times the rate
DataLineTimesRate(numericParts, rate, timeColumnIndex, parsed) ==
    IF Len(numericParts) = 0 THEN parsed
    ELSE [waveform |->
              Append(parsed.waveform,
                     Point(numericParts,
                           IF timeColumnIndex # -1 /\ Len(numericParts) > timeColumnIndex
                           THEN numericParts[timeColumnIndex + 1]
                           ELSE Times(Num(Len(parsed.waveform)), rate),
                           timeColumnIndex,
                           IF timeColumnIndex # -1 /\ Len(numericParts) > timeColumnIndex
                           THEN Len(numericParts) - 1 ELSE Len(numericParts))),
          channelCount |->
              IF (IF timeColumnIndex # -1 /\ Len(numericParts) > timeColumnIndex
                  THEN Len(numericParts) - 1 ELSE Len(numericParts)) > parsed.channelCount
              THEN (IF timeColumnIndex # -1 /\ Len(numericParts) > timeColumnIndex
                    THEN Len(numericParts) - 1 ELSE Len(numericParts))
              ELSE parsed.channelCount]

\* one row of the data loop; parsed = [waveform, channelCount]
DataLine(numericParts, rate, timeColumnIndex, parsed) ==
    IF Len(numericParts) = 0 THEN parsed
    ELSE [waveform |->
              Append(parsed.waveform,
                     Point(numericParts,
                           IF timeColumnIndex # -1 /\ Len(numericParts) > timeColumnIndex
                           THEN numericParts[timeColumnIndex + 1]
                           ELSE Times(Num(Len(parsed.waveform)), Over(Num(1), rate)),
                           timeColumnIndex,
                           IF timeColumnIndex # -1 /\ Len(numericParts) > timeColumnIndex
                           THEN Len(numericParts) - 1 ELSE Len(numericParts))),
          channelCount |->
              IF (IF timeColumnIndex # -1 /\ Len(numericParts) > timeColumnIndex
                  THEN Len(numericParts) - 1 ELSE Len(numericParts)) > parsed.channelCount
              THEN (IF timeColumnIndex # -1 /\ Len(numericParts) > timeColumnIndex
                    THEN Len(numericParts) - 1 ELSE Len(numericParts))
              ELSE parsed.channelCount]

\* for (let i = dataStartIndex; i < lines.length; i++)
RECURSIVE DataLoop(_, _, _, _, _)
DataLoop(lines, i, rate, timeColumnIndex, parsed) ==
    IF i >= Len(lines) \/ parsed.channelCount < 0 THEN parsed
    ELSE DataLoop(lines, i + 1, rate, timeColumnIndex,
                  IF trim(lines[i + 1]) = <<>> THEN parsed
                  ELSE DataLine(NumericParts(split(trim(lines[i + 1]), {","}), 1, <<>>),
                                rate, timeColumnIndex, parsed))

\* rawHeader[key] || fallback
Lookup(rawHeader, key, fallback) ==
    IF key \in DOMAIN rawHeader THEN rawHeader[key] ELSE fallback

\* the returned object; `${samplingRateHz} Hz` is kept as the number it formats
Parsed(parsed, rate, yUnit, rawHeader) ==
    [waveform |-> parsed.waveform,
     metadata |->
        [timeBase       |-> Lookup(rawHeader, <<"T", "i", "m", "e", " ", "B", "a", "s", "e">>,
                                   <<"U", "n", "k", "n", "o", "w", "n">>),
         samplingRate   |-> Lookup(rawHeader,
                                   <<"S", "a", "m", "p", "l", "i", "n", "g", " ",
                                     "R", "a", "t", "e">>,
                                   [hz |-> rate]),
         samplingRateHz |-> rate,
         amplitudeScale |-> Lookup(rawHeader,
                                   <<"A", "m", "p", "l", "i", "t", "u", "d", "e">>,
                                   <<"U", "n", "k", "n", "o", "w", "n">>),
         points         |-> Len(parsed.waveform),
         yUnit          |-> yUnit,
         rawHeader      |-> rawHeader,
         channels       |-> SubSeq(ChannelNames, 1, parsed.channelCount)]]

ParseData(lines, rate, yUnit, found, timeColumnIndex) ==
    Parsed(DataLoop(lines, found.dataStartIndex, rate, timeColumnIndex,
                    [waveform |-> <<>>, channelCount |-> 0]),
           rate, yUnit, found.rawHeader)

ParseColumns(lines, rate, yUnit, found) ==
    ParseData(lines, rate, yUnit, found,
              TimeColumn(lines, found, HeaderColumn(lines, found)))

ParseHeader(lines, headerChunk) ==
    ParseColumns(lines,
                 RateOf(RateMatch(headerChunk, 1)),
                 UnitOf(UnitMatch(headerChunk, 1)),
                 DataStart(lines,
                           HeaderScan(lines, 0,
                                      [dataStartIndex |-> 0, headerLineIndex |-> -1,
                                       rawHeader |-> <<>>])))

ParseLines(lines) == ParseHeader(lines, join(slice(lines, HeaderLimit), <<"\n">>))

parseOscilloscopeCsv(str) == ParseLines(SplitLines(str))

----------------------------------------------------------------------------
(* The statistics engine on its own: any window, any channel list *)

MaxSamples == 3

\* the amplitudes a sample may carry
SampleValues == {Num(-2), Num(0), Rat(3, 2)}

ChannelLists == {<<>>, <<"ch0">>, <<"ch0", "ch1">>}

\* a sample carries ch0, or ch0 and ch1, or (a row whose only number was its time) nothing
SampleVals ==
    {<<>>} \cup [{"ch0"} -> SampleValues] \cup [{"ch0", "ch1"} -> SampleValues]

NoResult == [kind |-> "none"]

InitStats ==
    /\ pc = "input"
    /\ \E n \in 0..MaxSamples :
         \E vs \in [1..n -> SampleVals] :
            waveform = [i \in 1..n |-> [time |-> Rat(i - 1, 1000), vals |-> vs[i]]]
    /\ channels \in ChannelLists
    /\ sampleRateHz = Num(1000)
    /\ windowType = "hanning"
    /\ chU = ""
    /\ chV = ""
    /\ text = <<>>
    /\ result = NoResult
    /\ AppMounted

CalculateStats ==
    /\ pc = "input"
    /\ pc' = "calculateStats"
    /\ result' = [kind |-> "stats", stats |-> calculateStats(waveform, channels)]
    /\ UNCHANGED <<waveform, channels, sampleRateHz, windowType, chU, chV, text>>
    /\ UNCHANGED appVars

NextStats == CalculateStats

SpecStats == InitStats /\ [][NextStats]_vars

\* the value a channel contributes at sample i: p[channel] || 0
ValueAt(i, channel) == OrZero(Get(waveform[i], channel))

IsConstantChannel(channel) ==
    \A i \in 1..Len(waveform) : ValueAt(i, channel) = ValueAt(1, channel)

C8_OneRecordPerChannel ==
    pc = "calculateStats" =>
        /\ Len(result.stats) = Len(channels)
        /\ \A i \in 1..Len(channels) :
              /\ result.stats[i].channelId = channels[i]
              /\ result.stats[i].dominantFrequency = Num(0)

\* C8 amended: a non-empty window gets exactly one record per channel of the
\* list, in list order, with dominantFrequency = 0; the empty window gets no
\* record at all (an empty list), whatever the channel list.
C8_RecordsUnlessEmpty ==
    pc = "calculateStats" =>
        IF Len(waveform) = 0
        THEN result.stats = <<>>
        ELSE /\ Len(result.stats) = Len(channels)
             /\ \A i \in 1..Len(channels) :
                   /\ result.stats[i].channelId = channels[i]
                   /\ result.stats[i].dominantFrequency = Num(0)

\* the empty window with two channels listed: no record comes back
C8_Witness ==
    /\ pc = "calculateStats"
    /\ Len(waveform) = 0
    /\ channels = <<"ch0", "ch1">>
    /\ result.stats = <<>>

----------------------------------------------------------------------------
(* The spectral analysis on its own.  The windows of 6 and 8 samples are    *)
(* analysed with the rectangular window only: the other windows' weights    *)
(* at those lengths (cos(2*PI*i/5), cos(2*PI*i/7)) are outside Q(sqrt 2).   *)

MaxPattern == 3

\* the amplitudes of the test signals
SignalValues == {-1, 0, 1}

\* the lengths whose FFT (at most 8 points) has its twiddle factors in Q(sqrt 2)
SignalLengths == 0..8

WindowedLengths == {0, 1, 2, 3, 4, 5, 7}

\* the patterns a signal is built from: 1 .. MaxPattern amplitudes
Patterns == UNION {[1..k -> SignalValues] : k \in 1..MaxPattern}

\* a signal of n samples: the pattern repeated, or the pattern followed by zeros
SignalOf(pattern, n, mode) ==
    [i \in 1..n |->
        IF mode = "repeat" THEN pattern[((i - 1) % Len(pattern)) + 1]
        ELSE IF i <= Len(pattern) THEN pattern[i] ELSE 0]

\* a capture whose ch0 is sig and whose ch1 is ch0 one sample later; the last
\* sample has no ch1 (a row with fewer fields)
CaptureOf(sig, rate) ==
    [i \in 1..Len(sig) |->
        [time |-> Over(Num(i - 1), rate),
         vals |-> IF i < Len(sig)
                  THEN [ch \in {"ch0", "ch1"} |->
                           IF ch = "ch0" THEN Num(sig[i]) ELSE Num(sig[i + 1])]
                  ELSE [ch \in {"ch0"} |-> Num(sig[i])]]]

\* the sampling rates of the captures; a header may state a rate of 0
SampleRates == {Num(1000), Num(12), Num(0)}

InitFFT ==
    /\ pc = "input"
    /\ sampleRateHz \in SampleRates
    /\ \E pattern \in Patterns, n \in SignalLengths, mode \in {"repeat", "pad"} :
          waveform = CaptureOf(SignalOf(pattern, n, mode), sampleRateHz)
    /\ channels \in ChannelLists
    /\ windowType \in WindowFunctionType
    /\ windowType # "rectangular" => Len(waveform) \in WindowedLengths
    /\ chU = ""
    /\ chV = ""
    /\ text = <<>>
    /\ result = NoResult
    /\ AppMounted

PerformFFTAnalysis ==
    /\ pc = "input"
    /\ pc' = "performFFTAnalysis"
    /\ result' = [kind |-> "fft",
                  fft  |-> performFFTAnalysis(waveform, sampleRateHz, channels, windowType)]
    /\ UNCHANGED <<waveform, channels, sampleRateHz, windowType, chU, chV, text>>
    /\ UNCHANGED appVars

NextFFT == PerformFFTAnalysis

SpecFFT == InitFFT /\ [][NextFFT]_vars

\* what the action returned, once it has run on a non-empty capture and channel list
AnalysedFFT == pc = "performFFTAnalysis" /\ Len(waveform) >= 1 /\ Len(channels) >= 1

ChannelSet == {channels[k] : k \in 1..Len(channels)}

\* the magnitude that bin i (0-based) of the returned fftData carries for channel ch
BinMagnitude(ch, i) == result.fft.fftData[i + 1].vals[ch]

BinFrequency(i) == result.fft.fftData[i + 1].frequency

\* the parts of C9 other than the ordering of the frequencies
FFTShape ==
    LET r == result.fft
        n == Len(waveform)
        P == r.fftPoints.a
    IN  /\ r.fftPoints = Num(P)
        /\ \E e \in 0..n : P = 2^e                       \* a power of two,
        /\ P >= n /\ (P > 1 => P \div 2 < n)             \* the smallest one >= n
        /\ Times(r.frequencyResolution, r.fftPoints) = sampleRateHz
        /\ Len(r.fftData) = P \div 2
        /\ \A i \in 0..(Len(r.fftData) - 1) :
              /\ BinFrequency(i) = Times(Num(i), r.frequencyResolution)
              /\ DOMAIN r.fftData[i + 1].vals = ChannelSet
              /\ \A ch \in ChannelSet : IsFinite(BinMagnitude(ch, i))

StrictlyAscending ==
    \A i \in 1..(Len(result.fft.fftData) - 1) : Lt(BinFrequency(i - 1), BinFrequency(i))

\* C9 as stated: for n >= 1 samples and a non-empty channel list, fftPoints is
\* the smallest power of two >= n, frequencyResolution is sampleRateHz / fftPoints,
\* fftData has floor(fftPoints / 2) bins, bin i at i * frequencyResolution, the
\* frequencies strictly ascending, each bin with a magnitude for every channel.
C9_FFTShapeAscending == AnalysedFFT => (FFTShape /\ StrictlyAscending)

\* C9, amended: the same, with the frequencies strictly ascending when the
\* sampling rate is positive; at a rate of 0 every bin sits at frequency 0.
C9_FFTShapePositiveRate ==
    AnalysedFFT =>
        /\ FFTShape
        /\ Sgn(sampleRateHz) > 0 => StrictlyAscending
        /\ Sgn(sampleRateHz) = 0 =>
              \A i \in 0..(Len(result.fft.fftData) - 1) : BinFrequency(i) = Num(0)

\* a 5-sample capture analysed into 8 points: 4 bins, two channels, one of them
\* missing from the last sample, the bins 125 Hz apart
C9_Witness ==
    /\ AnalysedFFT
    /\ Len(waveform) = 5
    /\ channels = <<"ch0", "ch1">>
    /\ windowType = "hamming"
    /\ result.fft.fftPoints = Num(8)
    /\ Len(result.fft.fftData) = 4
    /\ BinFrequency(3) = Num(375)
    /\ Sgn(BinMagnitude("ch1", 3)) > 0

\* the bin (0-based) C10 names for channel ch: the largest magnitude among bins
\* 1 .. halfN - 1, the lowest such bin on ties
IsDominantBin(ch, i) ==
    LET halfN == Len(result.fft.fftData)
    IN  /\ i \in 1..(halfN - 1)
        /\ \A j \in 1..(halfN - 1) : ~Gt(BinMagnitude(ch, j), BinMagnitude(ch, i))
        /\ \A j \in 1..(i - 1) : Lt(BinMagnitude(ch, j), BinMagnitude(ch, i))

\* C10: every channel's dominant frequency is the frequency of the bin with the
\* largest magnitude among bins 1 .. floor(fftPoints/2) - 1, the lowest such bin
\* on ties, never bin 0; it is 0 when there is no bin of index >= 1.
C10_DominantExcludesDC ==
    AnalysedFFT =>
        \A ch \in ChannelSet :
            IF Len(result.fft.fftData) <= 1
            THEN result.fft.dominantFreqs[ch] = Num(0)
            ELSE \E i \in 1..(Len(result.fft.fftData) - 1) :
                    /\ IsDominantBin(ch, i)
                    /\ result.fft.dominantFreqs[ch] = BinFrequency(i)

\* a channel whose DC bin is larger than every other bin, and whose largest
\* magnitude, not 0, is at the dominant bin and again at a higher bin
C10_Witness ==
    /\ AnalysedFFT
    /\ Sgn(sampleRateHz) > 0
    /\ \E ch \in ChannelSet : \E i \in 1..(Len(result.fft.fftData) - 1) :
          /\ IsDominantBin(ch, i)
          /\ Sgn(BinMagnitude(ch, i)) > 0
          /\ Gt(BinMagnitude(ch, 0), BinMagnitude(ch, i))
          /\ result.fft.dominantFreqs[ch] = BinFrequency(i)
          /\ \E j \in (i + 1)..(Len(result.fft.fftData) - 1) :
                Eq(BinMagnitude(ch, j), BinMagnitude(ch, i))

----------------------------------------------------------------------------
(* The transform on its own: fft applied to channel ch0 of a capture of 0   *)
(* to 8 samples.                                                            *)

InitTransform ==
    /\ pc = "input"
    /\ sampleRateHz = Num(1000)
    /\ \E pattern \in Patterns, n \in SignalLengths, mode \in {"repeat", "pad"} :
          waveform = CaptureOf(SignalOf(pattern, n, mode), sampleRateHz)
    /\ channels = <<"ch0">>
    /\ windowType = "rectangular"
    /\ chU = ""
    /\ chV = ""
    /\ text = <<>>
    /\ result = NoResult
    /\ AppMounted

\* const { real, imag } = fft(amplitudes)
Transform ==
    /\ pc = "input"
    /\ pc' = "fft"
    /\ result' = [kind |-> "spectrum", spectrum |-> fft(Amplitudes(waveform, "ch0"))]
    /\ UNCHANGED <<waveform, channels, sampleRateHz, windowType, chU, chV, text>>
    /\ UNCHANGED appVars

NextTransform == Transform

SpecTransform == InitTransform /\ [][NextTransform]_vars

\* sample j (0-based) of the transformed series
InputAt(j) == OrZero(Get(waveform[j + 1], "ch0"))

\* the sum over the samples j .. N - 1 of x[j] * cos(2 PI j k / P)
RECURSIVE CosSum(_, _, _)
CosSum(k, P, j) ==
    IF j >= Len(waveform) THEN Num(0)
    ELSE Plus(Times(InputAt(j), MathCos(TwoPiTimes(j * k, P))), CosSum(k, P, j + 1))

\* the sum over the samples j .. N - 1 of x[j] * sin(2 PI j k / P)
RECURSIVE SinSum(_, _, _)
SinSum(k, P, j) ==
    IF j >= Len(waveform) THEN Num(0)
    ELSE Plus(Times(InputAt(j), MathSin(TwoPiTimes(j * k, P))), SinSum(k, P, j + 1))

\* C19: for an input of N >= 1 samples fft returns real and imaginary arrays of
\* length P, the smallest power of two >= N, with real[k] + i imag[k] the sum of
\* x[j] * (cos(2 PI j k / P) - i sin(2 PI j k / P)) over the N samples (the
\* forward transform of the input zero-padded at the tail); for N = 1 it is the
\* input with a zero imaginary part.
C19_ForwardDFT ==
    (pc = "fft" /\ Len(waveform) >= 1) =>
        LET N == Len(waveform)
            P == Len(result.spectrum.real)
        IN  /\ Len(result.spectrum.imag) = P
            /\ \E e \in 0..N : P = 2 ^ e
            /\ P >= N /\ (P > 1 => P \div 2 < N)
            /\ \A k \in 0..(P - 1) :
                  /\ Eq(result.spectrum.real[k + 1], CosSum(k, P, 0))
                  /\ Eq(result.spectrum.imag[k + 1], Neg(SinSum(k, P, 0)))
            /\ N = 1 =>
                  /\ result.spectrum.real = <<InputAt(0)>>
                  /\ result.spectrum.imag = <<Num(0)>>

\* the 5 samples 0, 1, 0, 0, 0 transformed at 8 points: bin 1 is
\* sqrt(2)/2 - i sqrt(2)/2 and bin 2 is 0 - i
C19_Witness ==
    /\ pc = "fft"
    /\ Len(waveform) = 5
    /\ Len(result.spectrum.real) = 8
    /\ \A j \in 0..4 : InputAt(j) = (IF j = 1 THEN Num(1) ELSE Num(0))
    /\ result.spectrum.real[2] = HalfSqrt2
    /\ result.spectrum.imag[2] = QNeg(HalfSqrt2)
    /\ Eq(result.spectrum.real[3], Num(0))
    /\ result.spectrum.imag[3] = Num(-1)

----------------------------------------------------------------------------
(* The power-quality analysis on its own, as MetadataCard's handleAnalyze   *)
(* runs it: two selected channels of a non-empty capture.  The lengths are  *)
(* those whose Hanning weights and 8-point FFT are exact in Q(sqrt 2).      *)

MaxPhasePattern == 2

PhaseLengths == {1, 2, 3, 4, 5, 7}

PhasePatterns == UNION {[1..k -> SignalValues] : k \in 1..MaxPhasePattern}

\* the channels that can be selected; no sample of the capture has a ch2
PhaseChannels == {"ch0", "ch1", "ch2"}

InitPQ ==
    /\ pc = "input"
    /\ sampleRateHz \in SampleRates
    /\ \E pattern \in PhasePatterns, n \in PhaseLengths, mode \in {"repeat", "pad"} :
          waveform = CaptureOf(SignalOf(pattern, n, mode), sampleRateHz)
    /\ channels = <<"ch0", "ch1">>
    /\ windowType = "hanning"
    /\ chU \in PhaseChannels
    /\ chV \in PhaseChannels
    /\ text = <<>>
    /\ result = NoResult
    /\ AppMounted

\* handleAnalyze
CalculatePowerQuality ==
    /\ pc = "input"
    /\ ~(chU = "" \/ chV = "" \/ Len(waveform) = 0)
    /\ pc' = "calculatePowerQuality"
    /\ result' = [kind |-> "pq",
                  pq   |-> calculatePowerQuality(waveform, sampleRateHz, chU, chV)]
    /\ UNCHANGED <<waveform, channels, sampleRateHz, windowType, chU, chV, text>>
    /\ UNCHANGED appVars

NextPQ == CalculatePowerQuality

SpecPQ == InitPQ /\ [][NextPQ]_vars

\* the analysis has run
AnalysedPQ == pc = "calculatePowerQuality"

PhaseIds == 1..3

PhaseAt(p) == result.pq.phases[p]

Orders(p) == [j \in 1..Len(PhaseAt(p).harmonics) |-> PhaseAt(p).harmonics[j].order]

\* the number of bins a phase's spectrum has: half the transform's length
HalfN == NextPow2(Len(waveform)) \div 2

\* the fundamental's bin, read back from the phase's frequency (rate > 0)
PeakIndexOf(p) ==
    Over(Times(PhaseAt(p).frequency, Num(NextPow2(Len(waveform)))), sampleRateHz).a

\* whether the search window of an order holds a bin below HalfN; with no
\* fundamental (bin 0) every order falls back on bin 0
InSpectrum(p, order) ==
    IF PeakIndexOf(p) = 0 THEN HalfN >= 1
    ELSE PeakIndexOf(p) * order - searchRadius < HalfN

\* C2 as stated: each phase's harmonics list holds exactly the orders 1, 2, ...,
\* 15, ascending, none missing.
C2_AllFifteenOrders ==
    AnalysedPQ =>
        \A p \in PhaseIds : Orders(p) = [j \in 1..MaxHarmonicOrder |-> j]

\* C2, amended: each phase's harmonics list holds the orders 1 .. k, ascending
\* with no gap, for a k <= 15: an order is listed exactly when its search window
\* around fundamentalBin * order holds a bin of the spectrum, so the orders beyond
\* the spectrum's end are left out (all of them for a 1-sample waveform).
C2_OrdersUpToSpectrumEnd ==
    AnalysedPQ =>
        \A p \in PhaseIds :
            /\ Len(Orders(p)) <= MaxHarmonicOrder
            /\ \A j \in 1..Len(Orders(p)) : Orders(p)[j] = j
            /\ Sgn(sampleRateHz) > 0 =>
                  \A order \in 1..MaxHarmonicOrder :
                      order <= Len(Orders(p)) <=> InSpectrum(p, order)

\* a 5-sample waveform: 4 bins, the fundamental at bin 2, and only the orders
\* 1 and 2 listed for phase U
C2_Witness ==
    /\ AnalysedPQ
    /\ Len(waveform) = 5
    /\ Sgn(sampleRateHz) > 0
    /\ PeakIndexOf(1) = 2
    /\ Orders(1) = <<1, 2>>

\* C3 as stated: each phase's angleDeg, the difference of two raw angles wrapped,
\* is strictly greater than -180 and at most 180.
C3_AngleInHalfOpenRange ==
    AnalysedPQ =>
        \A p \in PhaseIds :
            PhaseAt(p).angleDeg.t = "angle" => PhaseAt(p).angleDeg.k = 0

\* the 3-sample waveform ch0 = 0, -1, 0 with U = ch0 and V = ch2, a channel no
\* sample has: U's raw angle is PI, V's is 0, and V's angleDeg is -180
C3_Witness ==
    /\ AnalysedPQ
    /\ Len(waveform) = 3
    /\ chU = "ch0" /\ chV = "ch2"
    /\ PhaseAt(1).angleRad = Angle(Num(-1), Num(0), 0)
    /\ PhaseAt(2).angleRad = Angle(Num(1), Num(0), 0)
    /\ PhaseAt(2).angleDeg.k = -1
    /\ IsHalfTurn(PhaseAt(2).angleDeg.x, PhaseAt(2).angleDeg.y)

\* C4 as stated: phase U's angleDeg is 0 for every non-empty waveform.
C4_PhaseUAngleZero ==
    AnalysedPQ =>
        /\ PhaseAt(1).angleDeg.t = "angle"
        /\ PhaseAt(1).angleDeg.k = 0
        /\ ArgSgn(PhaseAt(1).angleDeg.x, PhaseAt(1).angleDeg.y) = 0

\* a 1-sample waveform: no bin, no raw angle, and angleDeg is NaN for phase U
C4_Witness ==
    /\ AnalysedPQ
    /\ Len(waveform) = 1
    /\ PhaseAt(1).angleRad = undefined
    /\ PhaseAt(1).angleDeg = NaN

AvgRms == Over(Plus(Plus(PhaseAt(1).rms, PhaseAt(2).rms), PhaseAt(3).rms), Num(3))

Deviation(p) == MathAbs(Minus(PhaseAt(p).rms, AvgRms))

\* C5: unbalance is 100 * max |RMS_phase - avgRMS| / avgRMS when avgRMS > 0, and
\* 0, not NaN, when the three RMS values are 0.
C5_Unbalance ==
    AnalysedPQ =>
        /\ IsFinite(result.pq.unbalance)
        /\ Gt(AvgRms, Num(0)) =>
              \E p \in PhaseIds :
                  /\ \A q \in PhaseIds : ~Gt(Deviation(q), Deviation(p))
                  /\ Eq(Times(result.pq.unbalance, AvgRms), Times(Num(100), Deviation(p)))
        /\ (\A p \in PhaseIds : IsZero(PhaseAt(p).rms)) => result.pq.unbalance = Num(0)

\* three phases without amplitude: the selected channels are missing or zero
C5_Witness ==
    /\ AnalysedPQ
    /\ \A p \in PhaseIds : IsZero(PhaseAt(p).rms)
    /\ Len(waveform) = 7
    /\ result.pq.unbalance = Num(0)

\* C6 as stated: a phase without amplitude, or of a waveform too short to have a
\* bin of index > 1, has thd = 0 and every harmonic percentage = 0.
C6_ZeroDenominatorGivesZero ==
    AnalysedPQ =>
        \A p \in PhaseIds :
            (IsZero(PhaseAt(p).rms) \/ HalfN <= 2) =>
                /\ Eq(PhaseAt(p).thd, Num(0))
                /\ \A j \in 1..Len(PhaseAt(p).harmonics) :
                      Eq(PhaseAt(p).harmonics[j].percentage, Num(0))

\* a 7-sample phase without amplitude: thd and both percentages are NaN
C6_Witness ==
    /\ AnalysedPQ
    /\ Len(waveform) = 7
    /\ IsZero(PhaseAt(1).rms)
    /\ PhaseAt(1).thd = NaN
    /\ Len(PhaseAt(1).harmonics) = 2
    /\ \A j \in 1..2 : PhaseAt(1).harmonics[j].percentage = NaN

\* C11 as stated: for every waveform of length >= 1 the fundamental bin of each
\* phase, the one its frequency is read from, has index > 1.
C11_FundamentalAboveBinOne ==
    (AnalysedPQ /\ Sgn(sampleRateHz) > 0) =>
        \A p \in PhaseIds : PeakIndexOf(p) > 1

\* a 3-sample waveform: 2 bins, none of index > 1, so bin 0 is the fundamental
\* of phase U: frequency 0, the angle of bin 0, every order looked up around bin 0
C11_Witness ==
    /\ AnalysedPQ
    /\ Sgn(sampleRateHz) > 0
    /\ Len(waveform) = 3
    /\ HalfN = 2
    /\ PeakIndexOf(1) = 0
    /\ PhaseAt(1).frequency = Num(0)
    /\ Len(PhaseAt(1).harmonics) = MaxHarmonicOrder
    /\ \A j \in 1..MaxHarmonicOrder :
          Eq(Times(PhaseAt(1).harmonics[j].frequency, Num(4)), sampleRateHz)

\* the analysis at the default rate of 1000 Hz only
InitPhases == InitPQ /\ sampleRateHz = Num(1000)

SpecPhases == InitPhases /\ [][NextPQ]_vars

\* the series of the selected channels, a missing value as 0, and the third
\* series derived from them sample by sample
SeriesU == ArrayOf([i \in 1..Len(waveform) |-> OrZero(Get(waveform[i], chU))])

SeriesV == ArrayOf([i \in 1..Len(waveform) |-> OrZero(Get(waveform[i], chV))])

SeriesW == ArrayOf([i \in 1..Len(waveform) |-> Minus(Neg(SeriesU[i]), SeriesV[i])])

RmsOf(series) == MathSqrt(Over(SumSquares(series, 1, Num(0)), Num(Len(series))))

\* C18: the result has exactly the three phases 'U', 'V', 'W' in that order; U
\* and V have the RMS of the two selected channels (a missing value as 0), phase
\* W is the analysis of the series W[i] = -U[i] - V[i], and fundamentalFreq is
\* phase U's frequency.
C18_ThreePhases ==
    AnalysedPQ =>
        /\ Len(result.pq.phases) = 3
        /\ [p \in PhaseIds |-> PhaseAt(p).phaseId] = <<"U", "V", "W">>
        /\ PhaseAt(1).rms = RmsOf(SeriesU)
        /\ PhaseAt(2).rms = RmsOf(SeriesV)
        /\ [PhaseAt(3) EXCEPT !.angleDeg = Num(0)]
              = processPhase("W", SeriesW, Len(waveform), sampleRateHz)
        /\ result.pq.fundamentalFreq = PhaseAt(1).frequency

\* a 7-sample capture with U = ch0 and V = ch1, the last sample without ch1:
\* W is not 0 there, and W's raw angle differs from U's
C18_Witness ==
    /\ AnalysedPQ
    /\ Len(waveform) = 7
    /\ chU = "ch0" /\ chV = "ch1"
    /\ "ch1" \notin DOMAIN waveform[7].vals
    /\ ~IsZero(SeriesU[7])
    /\ SeriesW[7] = Neg(SeriesU[7])
    /\ Sgn(PhaseAt(3).rms) > 0
    /\ PhaseAt(3).angleRad # PhaseAt(1).angleRad
    /\ Sgn(result.pq.fundamentalFreq) > 0

----------------------------------------------------------------------------
(* The parser on its own: a text of up to MaxLines newline-terminated lines *)
(* is parsed once.                                                          *)

MaxLines == 4

RateLine == <<"S", "a", "m", "p", "l", "i", "n", "g", " ", "R", "a", "t", "e", ":", "1", "k", "S", "a", "/", "s">>

UnitLine == <<"D", "a", "t", "a", " ", "U", "i", "n", "t", ":", "m", "v">>

FirstRow == <<"0", ".", "1", ",", "0", ".", "2">>

SecondRow == <<"0", ".", "3", ",", "0", ".", "4">>

ColumnLine == <<"T", "i", "m", "e", ",", "C", "h", "0">>

LinePool == {RateLine, UnitLine, FirstRow, SecondRow, ColumnLine, <<>>}

\* the lines of a file, each followed by a newline
RECURSIVE TextOf(_, _)
TextOf(fileLines, i) ==
    IF i > Len(fileLines) THEN <<>>
    ELSE fileLines[i] \o <<"\n">> \o TextOf(fileLines, i + 1)

InitParse ==
    /\ pc = "input"
    /\ \E n \in 0..MaxLines :
          \E fileLines \in [1..n -> LinePool] : text = TextOf(fileLines, 1)
    /\ waveform = <<>>
    /\ channels = <<>>
    /\ sampleRateHz = Num(1000)
    /\ windowType = "hanning"
    /\ chU = ""
    /\ chV = ""
    /\ result = NoResult
    /\ AppMounted

ParseOscilloscopeCsv ==
    /\ pc = "input"
    /\ pc' = "parseOscilloscopeCsv"
    /\ result' = [kind |-> "parsed", parsed |-> parseOscilloscopeCsv(text)]
    /\ UNCHANGED <<waveform, channels, sampleRateHz, windowType, chU, chV, text>>
    /\ UNCHANGED appVars

NextParse == ParseOscilloscopeCsv

SpecParse == InitParse /\ [][NextParse]_vars

ParsedText == pc = "parseOscilloscopeCsv" /\ result.kind = "parsed"

\* the four-line file of the example
ExampleText == TextOf(<<RateLine, UnitLine, FirstRow, SecondRow>>, 1)

ExampleCommon ==
    /\ result.parsed.metadata.samplingRateHz = Num(1000)
    /\ result.parsed.metadata.yUnit = <<"m", "v">>
    /\ Len(result.parsed.waveform) = 2
    /\ result.parsed.metadata.points = 2
    /\ Eq(result.parsed.waveform[1].time, Num(0))
    /\ Eq(result.parsed.waveform[2].time, Rat(1, 1000))

\* C1 as stated: the four-line file gives samplingRateHz 1000, yUnit 'mv', two
\* samples at 0 and 0.001, and the channel list ['ch0'].
C1_ExampleOneChannel ==
    (ParsedText /\ text = ExampleText) =>
        /\ ExampleCommon
        /\ result.parsed.metadata.channels = <<"ch0">>

\* C1: the four-line file gives samplingRateHz 1000, yUnit 'mv', two samples at
\* 0 and 0.001, and the channel list ['ch0', 'ch1']: no column is taken as the
\* time, so both columns of a row are channels.
C1_ExampleTwoChannels ==
    (ParsedText /\ text = ExampleText) =>
        /\ ExampleCommon
        /\ result.parsed.metadata.channels = <<"ch0", "ch1">>
        /\ DOMAIN result.parsed.waveform[1].vals = {"ch0", "ch1"}
        /\ Eq(result.parsed.waveform[1].vals["ch0"], Rat(1, 10))
        /\ Eq(result.parsed.waveform[1].vals["ch1"], Rat(2, 10))
        /\ Eq(result.parsed.waveform[2].vals["ch0"], Rat(3, 10))
        /\ Eq(result.parsed.waveform[2].vals["ch1"], Rat(4, 10))

\* the four-line file has been parsed
C1_Witness ==
    /\ ParsedText
    /\ text = ExampleText
    /\ Len(result.parsed.waveform) = 2
    /\ <<"S", "a", "m", "p", "l", "i", "n", "g", " ", "R", "a", "t", "e">> \in DOMAIN result.parsed.metadata.rawHeader

\* the lines of the parsed text, and the header chunk the expressions are matched on
LinesOfText == SplitLines(text)

HeaderChunkOfText == join(slice(LinesOfText, HeaderLimit), <<"\n">>)

\* no comma-delimited field of any line parses as a number
NoNumericField ==
    \A i \in 1..Len(LinesOfText) :
        \A j \in 1..Len(split(LinesOfText[i], {","})) :
            isNaN(parseFloat(split(LinesOfText[i], {","})[j]))

DataStartOfText ==
    DataStart(LinesOfText,
              HeaderScan(LinesOfText, 0,
                         [dataStartIndex |-> 0, headerLineIndex |-> -1,
                          rawHeader |-> <<>>])).dataStartIndex

\* the (0-based) lines of the header region
HeaderRegion ==
    0..((IF Len(LinesOfText) < HeaderLimit THEN Len(LinesOfText) ELSE HeaderLimit) - 1)

IsColumnLine(i) ==
    /\ startsWith(toLowerCase(trim(LinesOfText[i + 1])), TimeWord)
    /\ includes(LinesOfText[i + 1], Comma)

IsDigitLine(i) ==
    /\ IsDigit(At(trim(LinesOfText[i + 1]), 1))
    /\ includes(LinesOfText[i + 1], Comma)

IsNumberLine(i) == ~isNaN(FirstField(LinesOfText[i + 1]))

\* the first line of a set of lines is the data start
FirstOf(candidates, start) ==
    start \in candidates /\ \A i \in candidates : start <= i

\* C13 as stated: the data start is the line after a line beginning with 'Time'
\* that has a comma; otherwise the first header-region line that starts with a
\* digit and has a comma, line 0 included; otherwise the first line of the file
\* whose first comma-delimited field parses as a number.
C13_DataStartDetection ==
    ParsedText =>
        IF \E i \in HeaderRegion : IsColumnLine(i)
        THEN \E i \in HeaderRegion : IsColumnLine(i) /\ DataStartOfText = i + 1
        ELSE IF \E i \in HeaderRegion : IsDigitLine(i)
             THEN FirstOf({i \in HeaderRegion : IsDigitLine(i)}, DataStartOfText)
        ELSE (\E i \in 0..(Len(LinesOfText) - 1) : IsNumberLine(i)) =>
                FirstOf({i \in 0..(Len(LinesOfText) - 1) : IsNumberLine(i)},
                        DataStartOfText)

\* a file of two data rows and no header: the data start is the second row, and
\* the first row is not in the waveform
C13_Witness ==
    /\ ParsedText
    /\ text = TextOf(<<FirstRow, SecondRow>>, 1)
    /\ DataStartOfText = 1
    /\ Len(result.parsed.waveform) = 1
    /\ Eq(result.parsed.waveform[1].vals["ch0"], Rat(3, 10))
    /\ Eq(result.parsed.waveform[1].vals["ch1"], Rat(4, 10))

\* what the header scan and the fallback search found in the text
FoundInText ==
    DataStart(LinesOfText,
              HeaderScan(LinesOfText, 0,
                         [dataStartIndex |-> 0, headerLineIndex |-> -1,
                          rawHeader |-> <<>>]))

\* timeColumnIndex as the parser determines it
TimeColumnOfText ==
    TimeColumn(LinesOfText, FoundInText, HeaderColumn(LinesOfText, FoundInText))

\* the (0-based) lines from the data start on that give a sample: those with a
\* numeric field
SampleLines ==
    {i \in DataStartOfText..(Len(LinesOfText) - 1) :
        Len(NumericParts(split(trim(LinesOfText[i + 1]), {","}), 1, <<>>)) > 0}

\* the line sample j (1-based) was made from
LineOfSample(j) ==
    CHOOSE i \in SampleLines : Cardinality({r \in SampleLines : r < i}) = j - 1

\* the numeric fields of the line sample j was made from
FieldsOfSample(j) ==
    NumericParts(split(trim(LinesOfText[LineOfSample(j) + 1]), {","}), 1, <<>>)

SampleTime(j) == result.parsed.waveform[j].time

\* C17 as stated: with a time column each sample's time is that column's value
\* in its row; with none, the sample made from the row k lines after the data
\* start has time k / samplingRateHz, and the times are strictly increasing.
C17_TimeFromRowIndex ==
    ParsedText =>
        /\ Len(result.parsed.waveform) = Cardinality(SampleLines)
        /\ \A j \in 1..Len(result.parsed.waveform) :
              IF TimeColumnOfText # -1
              THEN Eq(SampleTime(j),
                      parseFloat(split(LinesOfText[LineOfSample(j) + 1],
                                       {","})[TimeColumnOfText + 1]))
              ELSE /\ Eq(Times(SampleTime(j), result.parsed.metadata.samplingRateHz),
                         Num(LineOfSample(j) - DataStartOfText))
                   /\ j > 1 => Gt(SampleTime(j), SampleTime(j - 1))

\* C17, amended: with a time column each sample's time is the numeric field of
\* its row at the time column's index (when the row has that many numeric
\* fields); otherwise it is the number of samples made before it, divided by
\* samplingRateHz: blank rows and rows without a number do not advance the
\* time.  The synthesized times are strictly increasing.
C17_TimeFromSampleIndex ==
    ParsedText =>
        /\ Len(result.parsed.waveform) = Cardinality(SampleLines)
        /\ \A j \in 1..Len(result.parsed.waveform) :
              IF TimeColumnOfText # -1 /\ Len(FieldsOfSample(j)) > TimeColumnOfText
              THEN Eq(SampleTime(j), FieldsOfSample(j)[TimeColumnOfText + 1])
              ELSE /\ Eq(Times(SampleTime(j), result.parsed.metadata.samplingRateHz),
                         Num(j - 1))
                   /\ j > 1 => Gt(SampleTime(j), SampleTime(j - 1))

\* a unit line, a row, a blank line and a row: the second sample comes from the
\* row 2 lines after the data start and has time 0.001
C17_Witness ==
    /\ ParsedText
    /\ text = TextOf(<<UnitLine, FirstRow, <<>>, SecondRow>>, 1)
    /\ TimeColumnOfText = -1
    /\ DataStartOfText = 1
    /\ Len(result.parsed.waveform) = 2
    /\ LineOfSample(2) = 3
    /\ Eq(SampleTime(2), Rat(1, 1000))

----------------------------------------------------------------------------
(* The parser on longer files: at most one header line, then up to MaxRows  *)
(* data rows, the last line with or without its newline.                    *)

MaxRows == 6

RowOne == <<"1", ",", "5">>

RowTwo == <<"2", ",", "6">>

ShortRow == <<"3">>

RowPool == {RowOne, RowTwo, ShortRow}

\* a file's text; newline tells whether its last line is newline-terminated
FileText(fileLines, newline) ==
    IF newline \/ Len(fileLines) = 0 THEN TextOf(fileLines, 1)
    ELSE SubSeq(TextOf(fileLines, 1), 1, Len(TextOf(fileLines, 1)) - 1)

InitRows ==
    /\ pc = "input"
    /\ \E n \in 0..MaxRows :
          \E rows \in [1..n -> RowPool], header \in {<<>>, <<UnitLine>>},
             newline \in BOOLEAN :
                text = FileText(header \o rows, newline)
    /\ waveform = <<>>
    /\ channels = <<>>
    /\ sampleRateHz = Num(1000)
    /\ windowType = "hanning"
    /\ chU = ""
    /\ chV = ""
    /\ result = NoResult
    /\ AppMounted

SpecRows == InitRows /\ [][NextParse]_vars

\* the (0-based) last line that is not blank; -1 when every line is blank
LastRowOfText ==
    IF \A i \in 1..Len(LinesOfText) : trim(LinesOfText[i]) = <<>> THEN -1
    ELSE (CHOOSE i \in 1..Len(LinesOfText) :
             /\ trim(LinesOfText[i]) # <<>>
             /\ \A j \in (i + 1)..Len(LinesOfText) : trim(LinesOfText[j]) = <<>>) - 1

\* the row the third sample is taken from: 20 rows after the data start, or
\* the last row of a shorter file
ThirdSampleRow ==
    IF DataStartOfText + 20 < LastRowOfText THEN DataStartOfText + 20
    ELSE LastRowOfText

\* the first field rises from the first data row to the second and on to the third sample
RisingFirstField ==
    /\ ~isNaN(FirstField(LinesOfText[DataStartOfText + 1]))
    /\ ~isNaN(FirstField(LinesOfText[DataStartOfText + 2]))
    /\ ~isNaN(FirstField(LinesOfText[ThirdSampleRow + 1]))
    /\ Gt(FirstField(LinesOfText[DataStartOfText + 2]),
          FirstField(LinesOfText[DataStartOfText + 1]))
    /\ Gt(FirstField(LinesOfText[ThirdSampleRow + 1]),
          FirstField(LinesOfText[DataStartOfText + 2]))

\* C14 as stated: with no column header row, and three or more rows from the
\* data start on, column 0 is the time column exactly when the first field
\* rises over the first row, the second row and the 20th (or last) row, for a
\* file of any length, with or without a trailing newline.
C14_RampDecidesTimeColumn ==
    (/\ ParsedText
     /\ FoundInText.headerLineIndex = -1
     /\ LastRowOfText >= DataStartOfText + 2) =>
        (TimeColumnOfText = 0 <=> RisingFirstField)

\* a unit line and the rows 1,5  2,6  2,6  2,6  2,6  3, newline-terminated: the
\* first field rises 1, 2, 3, yet no time column is assumed and the first field
\* of each row becomes channel ch0
C14_Witness ==
    /\ ParsedText
    /\ text = FileText(<<UnitLine, RowOne, RowTwo, RowTwo, RowTwo, RowTwo, ShortRow>>, TRUE)
    /\ RisingFirstField
    /\ TimeColumnOfText = -1
    /\ result.parsed.metadata.channels = <<"ch0", "ch1">>
    /\ Eq(result.parsed.waveform[1].vals["ch0"], Num(1))
    /\ Eq(result.parsed.waveform[1].time, Num(0))

\* the channels of the result, as a set
ParsedChannels ==
    {result.parsed.metadata.channels[k] : k \in 1..Len(result.parsed.metadata.channels)}

\* C16 as stated: every sample of the result carries a number for every channel
\* of metadata.channels.
C16_EverySampleHasEveryChannel ==
    ParsedText =>
        \A i \in 1..Len(result.parsed.waveform) :
            \A ch \in ParsedChannels :
                /\ ch \in DOMAIN result.parsed.waveform[i].vals
                /\ IsFinite(result.parsed.waveform[i].vals[ch])

\* a unit line, the row 1,5 and the row 3: two channels are declared, and the
\* second sample has ch0 = 3 and nothing for ch1
C16_Witness ==
    /\ ParsedText
    /\ text = FileText(<<UnitLine, RowOne, ShortRow>>, TRUE)
    /\ result.parsed.metadata.channels = <<"ch0", "ch1">>
    /\ Len(result.parsed.waveform) = 2
    /\ DOMAIN result.parsed.waveform[1].vals = {"ch0", "ch1"}
    /\ DOMAIN result.parsed.waveform[2].vals = {"ch0"}
    /\ Eq(result.parsed.waveform[2].vals["ch0"], Num(3))

----------------------------------------------------------------------------
(* The parser on files that begin with blank lines: up to HeaderLimit +     *)
(* MaxBeyond of them, then a unit line and a rate line in either order, or  *)
(* one of the two, then a data row.                                         *)

MaxBeyond == 1

RateLineTwo == <<"S", "a", "m", "p", "l", "i", "n", "g", " ", "R", "a", "t", "e", ":", "2", "k", "S", "a", "/", "s">>

HeaderPairs ==
    {<<UnitLine>>, <<RateLineTwo>>, <<UnitLine, RateLineTwo>>, <<RateLineTwo, UnitLine>>}

BlankLines(n) == [i \in 1..n |-> <<>>]

InitBlanks ==
    /\ pc = "input"
    /\ \E n \in 0..(HeaderLimit + MaxBeyond), header \in HeaderPairs :
          text = TextOf(BlankLines(n) \o header \o <<RowOne>>, 1)
    /\ waveform = <<>>
    /\ channels = <<>>
    /\ sampleRateHz = Num(1000)
    /\ windowType = "hanning"
    /\ chU = ""
    /\ chV = ""
    /\ result = NoResult
    /\ AppMounted

SpecBlanks == InitBlanks /\ [][NextParse]_vars

\* the (0-based) lines of the text that are the given line
LinesThatAre(line) == {i \in 0..(Len(LinesOfText) - 1) : LinesOfText[i + 1] = line}

\* how many of the lines before line i are not blank
NonBlankBefore(i) == Cardinality({j \in 1..i : trim(LinesOfText[j]) # <<>>})

UnitRecognized ==
    /\ result.parsed.metadata.yUnit = <<"m", "v">>
    /\ Lookup(result.parsed.metadata.rawHeader,
              <<"D", "a", "t", "a", " ", "U", "i", "n", "t">>, <<>>) = <<"m", "v">>

RateRecognized ==
    /\ result.parsed.metadata.samplingRateHz = Num(2000)
    /\ Lookup(result.parsed.metadata.rawHeader,
              <<"S", "a", "m", "p", "l", "i", "n", "g", " ", "R", "a", "t", "e">>, <<>>)
          = <<"2", "k", "S", "a", "/", "s">>

\* C15 as stated: a unit line or a sampling-rate line that is among the first 50
\* non-empty lines is recognized, blank lines not counting toward the 50.
C15_FirstFiftyNonEmptyLines ==
    ParsedText =>
        /\ (\E i \in LinesThatAre(UnitLine) : NonBlankBefore(i) < HeaderLimit)
              => UnitRecognized
        /\ (\E i \in LinesThatAre(RateLineTwo) : NonBlankBefore(i) < HeaderLimit)
              => RateRecognized

\* C15, amended: the header region is the first 50 lines of the text, blank
\* lines included: a unit line or a sampling-rate line is recognized exactly
\* when it is one of the lines 0 .. 49; past them the unit stays 'V', the
\* rate 1000, and the raw header has no entry for the line.
C15_FirstFiftyLines ==
    ParsedText =>
        /\ IF \E i \in LinesThatAre(UnitLine) : i < HeaderLimit
           THEN UnitRecognized
           ELSE /\ result.parsed.metadata.yUnit = <<"V">>
                /\ <<"D", "a", "t", "a", " ", "U", "i", "n", "t">>
                      \notin DOMAIN result.parsed.metadata.rawHeader
        /\ IF \E i \in LinesThatAre(RateLineTwo) : i < HeaderLimit
           THEN RateRecognized
           ELSE /\ result.parsed.metadata.samplingRateHz = Num(1000)
                /\ <<"S", "a", "m", "p", "l", "i", "n", "g", " ", "R", "a", "t", "e">>
                      \notin DOMAIN result.parsed.metadata.rawHeader

\* 49 blank lines, the rate line as line 49 and the unit line as line 50: the
\* rate is recognized, the unit, the second non-empty line of the file, is not
C15_Witness ==
    /\ ParsedText
    /\ LinesThatAre(RateLineTwo) = {HeaderLimit - 1}
    /\ LinesThatAre(UnitLine) = {HeaderLimit}
    /\ NonBlankBefore(HeaderLimit - 1) = 0
    /\ RateRecognized
    /\ result.parsed.metadata.yUnit = <<"V">>
    /\ Len(result.parsed.waveform) = 1

----------------------------------------------------------------------------
(* App: the component's state and its handlers.  A ChannelStats object is   *)
(* an identity in heap; a ParsedData's stats is the array of the identities *)
(* it holds, so that two ParsedData holding the same object see each        *)
(* other's writes.  The arrays, samples and metadata objects are never      *)
(* written after they are built and are kept as values.                     *)

\* the variables of the analysis functions run on their own
analysisVars == <<waveform, channels, sampleRateHz, windowType, chU, chV, text, result>>

\* the ChannelStats objects reachable from a ParsedData
StatsOf(data) ==
    IF data = null THEN {} ELSE {data.stats[i] : i \in 1..Len(data.stats)}

\* n identities that are not in use
RECURSIVE NewIds(_, _, _, _)
NewIds(used, n, candidate, ids) ==
    IF n = 0 THEN ids
    ELSE IF candidate \in used THEN NewIds(used, n, candidate + 1, ids)
    ELSE NewIds(used, n - 1, candidate + 1, Append(ids, candidate))

\* the heap once the objects of an array literal have been created
WithObjects(h, ids, records) ==
    [id \in DOMAIN h \cup {ids[i] : i \in 1..Len(ids)} |->
        IF id \in DOMAIN h THEN h[id]
        ELSE records[CHOOSE i \in 1..Len(ids) : ids[i] = id]]

\* calculateStats returns new objects: their identities and the heap holding them
NewStats(h, ids, records) == [stats |-> ids, heap |-> WithObjects(h, ids, records)]

CreateStats(h, records) == NewStats(h, NewIds(DOMAIN h, Len(records), 1, <<>>), records)

\* dominantFreqs[s.channelId]
DominantOf(dominantFreqs, channelId) ==
    IF channelId \in DOMAIN dominantFreqs THEN dominantFreqs[channelId] ELSE undefined

\* stats.forEach(s => { s.dominantFrequency = dominantFreqs[s.channelId] })
WriteDominant(h, stats, dominantFreqs) ==
    [id \in DOMAIN h |->
        IF \E i \in 1..Len(stats) : stats[i] = id
        THEN [h[id] EXCEPT !.dominantFrequency = DominantOf(dominantFreqs, h[id].channelId)]
        ELSE h[id]]

\* (mutant) the scope is ignored: the spectrum is always that of the view
recalculateFFTOfView(targetWaveform, metadata, currentConfig) ==
    performFFTAnalysis(targetWaveform, metadata.samplingRateHz, metadata.channels,
                       currentConfig.window)

\* recalculateFFT reads originalData as the handler that runs sees it
recalculateFFT(targetWaveform, metadata, currentConfig) ==
    performFFTAnalysis(IF currentConfig.scope = "full" /\ originalData # null
                       THEN originalData.waveform
                       ELSE targetWaveform,
                       metadata.samplingRateHz, metadata.channels, currentConfig.window)

\* the object handed to setDisplayedData, and the heap after the forEach
ViewOf(newWaveform, newStats, currentConfig, sourceData, h, analysis) ==
    [displayedData |->
        [metadata    |-> [sourceData.metadata EXCEPT !.points = Len(newWaveform)],
         waveform    |-> newWaveform,
         fftData     |-> analysis.fftData,
         stats       |-> newStats,
         channels    |-> sourceData.metadata.channels,
         fftMetadata |-> [scope      |-> currentConfig.scope,
                          window     |-> currentConfig.window,
                          points     |-> analysis.fftPoints,
                          resolution |-> analysis.frequencyResolution]],
     heap |-> WriteDominant(h, newStats, analysis.dominantFreqs)]

\* every caller passes a sourceData that is not null
updateDisplayedData(newWaveform, newStats, currentConfig, sourceData, h) ==
    ViewOf(newWaveform, newStats, currentConfig, sourceData, h,
           recalculateFFT(newWaveform, sourceData.metadata, currentConfig))

\* the position of an identity in a list of identities
PositionIn(order, id) == CHOOSE k \in 1..Len(order) : order[k] = id

Renamed(data, order) ==
    IF data = null THEN null
    ELSE [data EXCEPT !.stats = [i \in 1..Len(data.stats) |-> PositionIn(order, data.stats[i])]]

\* the objects still referenced, named by their position in order
RenamedAll(od, dd, h, order) ==
    [originalData  |-> Renamed(od, order),
     displayedData |-> Renamed(dd, order),
     heap          |-> [k \in 1..Len(order) |-> h[order[k]]]]

\* Identities cannot be observed and unreferenced objects are collected: the
\* state keeps the objects of originalData first, then those only the view holds.
Referenced(od, dd, h) ==
    RenamedAll(od, dd, h,
               IF od = null THEN <<>>
               ELSE od.stats \o SelectSeq(dd.stats, LAMBDA id : id \notin StatsOf(od)))

\* setOriginalData, setDisplayedData and the ChannelStats objects they leave alive
Commit(next) ==
    /\ originalData' = next.originalData
    /\ displayedData' = next.displayedData
    /\ heap' = next.heap

\* the fullData object of handleFileChange
FullData(parsed, stats, analysis, window) ==
    [metadata    |-> parsed.metadata,
     waveform    |-> parsed.waveform,
     fftData     |-> analysis.fftData,
     stats       |-> stats,
     fftMetadata |-> [scope      |-> "view",
                      window     |-> window,
                      points     |-> analysis.fftPoints,
                      resolution |-> analysis.frequencyResolution]]

Loaded(parsed, created, analysis) ==
    [fullData |-> FullData(parsed, created.stats, analysis, fftConfig.window),
     heap     |-> WriteDominant(created.heap, created.stats, analysis.dominantFreqs)]

SetBoth(loaded) == Commit(Referenced(loaded.fullData, loaded.fullData, loaded.heap))

LoadParsed(parsed) ==
    SetBoth(Loaded(parsed,
                   CreateStats(heap, calculateStats(parsed.waveform, parsed.metadata.channels)),
                   performFFTAnalysis(parsed.waveform, parsed.metadata.samplingRateHz,
                                      parsed.metadata.channels, fftConfig.window)))

\* handleFileChange up to `await file.text()`
handleFileChangeBegin ==
    /\ status' = "ANALYZING"
    /\ aiAnalysis' = NoText
    /\ isZoomed' = FALSE
    /\ mathCount' = 0
    /\ channelNames' = <<>>
    /\ pc' = "handleFileChange.await"
    /\ UNCHANGED <<originalData, displayedData, heap, fftConfig, pending, analysisVars, panelVars>>

\* metadata.channels[0] || ''
FirstChannelOrEmpty(chans) == IF Len(chans) = 0 THEN "" ELSE chans[1]

\* the state set from the parsed file
FileParsed(parsed) ==
    /\ LoadParsed(parsed)
    /\ mathSourceCh' = FirstChannelOrEmpty(parsed.metadata.channels)

\* handleFileChange from the text that file.text() resolved with
handleFileChange(fileText) ==
    /\ status = "ANALYZING"
    /\ FileParsed(parseOscilloscopeCsv(fileText))
    /\ status' = "COMPLETED"
    /\ pc' = "handleFileChange"
    /\ UNCHANGED <<isZoomed, mathCount, fftConfig, aiAnalysis, channelNames, pending,
                   analysisVars, mathFactor, editingChannel, tempName>>

\* handleFileChange when file.text() rejects: the catch block
handleFileChangeError ==
    /\ status = "ANALYZING"
    /\ status' = "ERROR"
    /\ pc' = "handleFileChange.catch"
    /\ UNCHANGED <<originalData, displayedData, heap, isZoomed, mathCount, fftConfig,
                   aiAnalysis, channelNames, pending, analysisVars, panelVars>>

\* (mutant) 'Import New' clears the data and leaves the status as it is
resetAppKeepsStatus ==
    /\ originalData' = null
    /\ displayedData' = null
    /\ heap' = <<>>
    /\ isZoomed' = FALSE
    /\ mathCount' = 0
    /\ aiAnalysis' = NoText
    /\ channelNames' = <<>>
    /\ pc' = "resetApp"
    /\ UNCHANGED <<status, fftConfig, pending, analysisVars, panelVars>>

resetApp ==
    /\ originalData' = null
    /\ displayedData' = null
    /\ heap' = <<>>
    /\ isZoomed' = FALSE
    /\ mathCount' = 0
    /\ status' = "IDLE"
    /\ aiAnalysis' = NoText
    /\ channelNames' = <<>>
    /\ pc' = "resetApp"
    /\ UNCHANGED <<fftConfig, pending, analysisVars, panelVars>>

\* the view is replaced; originalData stays the object it was
SetView(view) == Commit(Referenced(originalData, view.displayedData, view.heap))

\* `Math${mathCount + 1}`
MathName(n) == "Math" \o ToString(n)

\* { ...point, [newChName]: (point[mathSourceCh] || 0) * factor }
MathPoint(point, newChName, sourceCh, factor) ==
    [point EXCEPT !.vals =
        ObjectOf([ch \in DOMAIN point.vals \cup {newChName} |->
                    IF ch = newChName THEN Times(OrZero(Get(point, sourceCh)), factor)
                    ELSE point.vals[ch]])]

MathData(newWaveform, newChannels, stats) ==
    [originalData EXCEPT !.waveform = newWaveform,
                         !.metadata = [originalData.metadata EXCEPT !.channels = newChannels],
                         !.stats = stats]

MathView(newWaveform, newStats, newOriginalData, view) ==
    Commit(Referenced(newOriginalData, view.displayedData, view.heap))

MathUpdate(newWaveform, created, newOriginalData) ==
    MathView(newWaveform, created.stats, newOriginalData,
             updateDisplayedData(newWaveform, created.stats, fftConfig, newOriginalData,
                                 created.heap))

MathStats(newWaveform, newChannels, created) ==
    MathUpdate(newWaveform, created, MathData(newWaveform, newChannels, created.stats))

MathChannel(newWaveform, newChannels) ==
    MathStats(newWaveform, newChannels,
              CreateStats(heap, calculateStats(newWaveform, newChannels)))

\* the handler for the source and the factor that the panel holds
ApplyMath(sourceCh, factorText) ==
    /\ originalData # null
    /\ sourceCh # ""
    /\ ~isNaN(parseFloat(factorText))
    /\ MathChannel(ArrayOf([i \in 1..Len(originalData.waveform) |->
                              MathPoint(originalData.waveform[i], MathName(mathCount + 1),
                                        sourceCh, parseFloat(factorText))]),
                   Append(originalData.metadata.channels, MathName(mathCount + 1)))
    /\ mathCount' = mathCount + 1
    /\ isZoomed' = FALSE
    /\ pc' = "handleApplyMath"
    /\ UNCHANGED <<fftConfig, status, aiAnalysis, channelNames, pending, analysisVars,
                   editingChannel, tempName>>

handleApplyMath ==
    /\ ApplyMath(mathSourceCh, mathFactor)
    /\ UNCHANGED <<mathSourceCh, mathFactor>>

\* onChange of the source select and of the factor field
setMathSourceCh(value) ==
    /\ mathSourceCh' = value
    /\ pc' = "setMathSourceCh"
    /\ UNCHANGED <<originalData, displayedData, fftConfig, isZoomed, mathCount, heap, status,
                   aiAnalysis, channelNames, pending, analysisVars, mathFactor,
                   editingChannel, tempName>>

setMathFactor(value) ==
    /\ mathFactor' = value
    /\ pc' = "setMathFactor"
    /\ UNCHANGED <<originalData, displayedData, fftConfig, isZoomed, mathCount, heap, status,
                   aiAnalysis, channelNames, pending, analysisVars, mathSourceCh,
                   editingChannel, tempName>>

\* channelNames[ch] || ch: the name a channel is shown under
DisplayName(ch) ==
    IF ch \in DOMAIN channelNames /\ channelNames[ch] # "" THEN channelNames[ch] ELSE ch

startRenaming(channelId) ==
    /\ editingChannel' = [channelId |-> channelId]
    /\ tempName' = DisplayName(channelId)
    /\ pc' = "startRenaming"
    /\ UNCHANGED <<originalData, displayedData, fftConfig, isZoomed, mathCount, heap, status,
                   aiAnalysis, channelNames, pending, analysisVars, mathSourceCh, mathFactor>>

\* onChange of the rename field
setTempName(value) ==
    /\ tempName' = value
    /\ pc' = "setTempName"
    /\ UNCHANGED <<originalData, displayedData, fftConfig, isZoomed, mathCount, heap, status,
                   aiAnalysis, channelNames, pending, analysisVars, mathSourceCh, mathFactor,
                   editingChannel>>

\* { ...prev, [editingChannel]: tempName }
saveChannelName ==
    /\ IF editingChannel # null
       THEN /\ channelNames' = ObjectOf([ch \in DOMAIN channelNames \cup {editingChannel.channelId} |->
                                            IF ch = editingChannel.channelId THEN tempName
                                            ELSE channelNames[ch]])
            /\ editingChannel' = null
       ELSE UNCHANGED <<channelNames, editingChannel>>
    /\ pc' = "saveChannelName"
    /\ UNCHANGED <<originalData, displayedData, fftConfig, isZoomed, mathCount, heap, status,
                   aiAnalysis, pending, analysisVars, mathSourceCh, mathFactor, tempName>>

\* { ...fftConfig, ...newConfig }
Merged(config, newConfig) == newConfig @@ config

handleFftConfigChange(newConfig) ==
    /\ fftConfig' = Merged(fftConfig, newConfig)
    /\ IF displayedData # null /\ originalData # null
       THEN SetView(updateDisplayedData(displayedData.waveform, displayedData.stats,
                                        Merged(fftConfig, newConfig), originalData, heap))
       ELSE UNCHANGED <<originalData, displayedData, heap>>
    /\ pc' = "handleFftConfigChange"
    /\ UNCHANGED <<isZoomed, mathCount, status, aiAnalysis, channelNames, pending,
                   analysisVars, panelVars>>

\* wf.findIndex(p => p.time >= t), 0-based, -1 when no sample qualifies
findIndex(wf, t) ==
    IF \E i \in 1..Len(wf) : Ge(wf[i].time, t)
    THEN (CHOOSE i \in 1..Len(wf) :
             Ge(wf[i].time, t) /\ \A j \in 1..(i - 1) : ~Ge(wf[j].time, t)) - 1
    ELSE -1

StartIndex(wf, startTime, found) ==
    IF found = -1
    THEN IF Le(startTime, wf[1].time) THEN 0 ELSE Len(wf) - 1
    ELSE found

EndIndex(wf, endTime, found) ==
    IF found = -1
    THEN IF Ge(endTime, wf[Len(wf)].time) THEN Len(wf) - 1 ELSE 0
    ELSE found

IMax(m, n) == IF m >= n THEN m ELSE n

IMin(m, n) == IF m <= n THEN m ELSE n

ZoomView(slicedWaveform, created) ==
    SetView(updateDisplayedData(slicedWaveform, created.stats, fftConfig, originalData,
                                created.heap))

ZoomSlice(slicedWaveform) ==
    /\ Len(slicedWaveform) >= 2
    /\ ZoomView(slicedWaveform,
                CreateStats(heap, calculateStats(slicedWaveform,
                                                 originalData.metadata.channels)))

\* (mutant) a slice of a single sample is shown as well
ZoomToAnySlice(startIndex, endIndex) ==
    /\ startIndex <= endIndex
    /\ ZoomView(SubSeq(originalData.waveform, startIndex + 1, endIndex + 1),
                CreateStats(heap, calculateStats(SubSeq(originalData.waveform, startIndex + 1,
                                                        endIndex + 1),
                                                 originalData.metadata.channels)))

ZoomTo(startIndex, endIndex) ==
    /\ startIndex < endIndex
    /\ ZoomSlice(SubSeq(originalData.waveform, startIndex + 1, endIndex + 1))

handleZoom(startTime, endTime) ==
    /\ originalData # null
    /\ ~Ge(startTime, endTime)
    /\ ZoomTo(IMax(0, StartIndex(originalData.waveform, startTime,
                                 findIndex(originalData.waveform, startTime))),
              IMin(Len(originalData.waveform) - 1,
                   EndIndex(originalData.waveform, endTime,
                            findIndex(originalData.waveform, endTime))))
    /\ isZoomed' = TRUE
    /\ aiAnalysis' = NoText
    /\ pc' = "handleZoom"
    /\ UNCHANGED <<fftConfig, mathCount, status, channelNames, pending, analysisVars, panelVars>>

handleResetZoom ==
    /\ originalData # null
    /\ SetView(updateDisplayedData(originalData.waveform, originalData.stats, fftConfig,
                                   originalData, heap))
    /\ isZoomed' = FALSE
    /\ aiAnalysis' = NoText
    /\ pc' = "handleResetZoom"
    /\ UNCHANGED <<fftConfig, mathCount, status, channelNames, pending, analysisVars, panelVars>>

----------------------------------------------------------------------------
(* The App driven by its user: two files, the zoom, FFT and math controls *)

MaxMath == 1

\* Time,Ch0 with the samples 1, 1, 0, -1, -1 at the times 0 .. 4
RampFile ==
    TextOf(<<RateLine, ColumnLine, <<"0", ",", "1">>, <<"1", ",", "1">>, <<"2", ",", "0">>,
             <<"3", ",", "-", "1">>, <<"4", ",", "-", "1">>>>, 1)

\* Time,A,B with two samples of two channels at the times 0 and 1
PairFile ==
    TextOf(<<<<"T", "i", "m", "e", ",", "A", ",", "B">>, <<"0", ",", "1", ",", "2">>,
             <<"1", ",", "-", "1", ",", "0">>>>, 1)

\* a header line and no data row
NoDataFile == TextOf(<<UnitLine>>, 1)

Files == {RampFile, PairFile, NoDataFile}

\* the times a zoom selection can start or end at
ZoomTimes == {Num(-1), Num(1), Num(9)}

\* what the math panel's factor field can hold
MathFactors == {<<"2">>, <<"x">>}

\* the choices of the FFT panel
ConfigChanges ==
    {[scope |-> sc] : sc \in {"view", "full"}}
        \cup {[window |-> w] : w \in {"hanning", "rectangular"}}

\* the options of the math panel's source select
SourceChannels ==
    IF originalData = null THEN {""}
    ELSE {originalData.metadata.channels[i] : i \in 1..Len(originalData.metadata.channels)}
            \cup {""}

InitApp ==
    /\ pc = "input"
    /\ waveform = <<>>
    /\ channels = <<>>
    /\ sampleRateHz = Num(1000)
    /\ windowType = "hanning"
    /\ chU = ""
    /\ chV = ""
    /\ text = <<>>
    /\ result = NoResult
    /\ AppMounted

\* what evaluating a property of undefined raises
TypeError == [thrown |-> "TypeError"]

\* the fullTimeRange prop of DataCharts: { start: waveform[0].time, end: ... }
fullTimeRange(data) ==
    IF Len(data.waveform) = 0 THEN TypeError
    ELSE [start |-> data.waveform[1].time, end |-> data.waveform[Len(data.waveform)].time]

\* the data section is to be rendered
DataShown == displayedData # null /\ originalData # null /\ status = "COMPLETED"

\* rendering the data section raises: React unmounts the App, no handler is left
RenderThrows == DataShown /\ fullTimeRange(originalData) = TypeError

\* the panels are rendered once a file is loaded
Rendered == DataShown /\ ~RenderThrows

\* the upload section is rendered while IDLE or ERROR; the user picks a file
HandleFileChangeBegin == status \in {"IDLE", "ERROR"} /\ handleFileChangeBegin

HandleFileChange == \E fileText \in Files : handleFileChange(fileText)

HandleFileChangeError == handleFileChangeError

ResetApp == originalData # null /\ ~RenderThrows /\ resetApp

\* the user sets the source and the factor of the math panel and presses apply
HandleApplyMath ==
    /\ Rendered
    /\ mathCount < MaxMath
    /\ \E sourceCh \in SourceChannels, factorText \in MathFactors :
          /\ mathSourceCh' = sourceCh
          /\ mathFactor' = factorText
          /\ ApplyMath(sourceCh, factorText)

HandleFftConfigChange ==
    /\ Rendered
    /\ \E newConfig \in ConfigChanges : handleFftConfigChange(newConfig)

HandleZoom ==
    /\ Rendered
    /\ \E startTime \in ZoomTimes, endTime \in ZoomTimes : handleZoom(startTime, endTime)

HandleResetZoom == Rendered /\ handleResetZoom

NextApp ==
    \/ HandleFileChangeBegin
    \/ HandleFileChange
    \/ HandleFileChangeError
    \/ ResetApp
    \/ HandleApplyMath
    \/ HandleFftConfigChange
    \/ HandleZoom
    \/ HandleResetZoom

SpecApp == InitApp /\ [][NextApp]_vars

\* C20: after any handler that sets the view, no ChannelStats object of the
\* view (the objects whose dominantFrequency the update has written) is an
\* object of originalData.
C20_ViewSharesNothingWithOriginal ==
    (originalData # null /\ displayedData # null) =>
        StatsOf(displayedData) \cap StatsOf(originalData) = {}

\* The ramp file is loaded under the Hanning window and the window is then set
\* to rectangular: the ChannelStats object of originalData now carries 125 Hz,
\* while originalData.fftMetadata still names the Hanning window, under which
\* the dominant frequency of originalData.waveform is 250 Hz.
C20_Witness ==
    /\ pc = "handleFftConfigChange"
    /\ originalData # null
    /\ originalData.fftMetadata.window = "hanning"
    /\ fftConfig.window = "rectangular"
    /\ Len(originalData.waveform) = 5
    /\ originalData.stats = displayedData.stats
    /\ heap[originalData.stats[1]].dominantFrequency = Num(125)
    /\ performFFTAnalysis(originalData.waveform, originalData.metadata.samplingRateHz,
                          originalData.metadata.channels,
                          "hanning").dominantFreqs["ch0"] = Num(250)

\* the analysis of a waveform under the configured window
SpectrumFrom(wf) ==
    performFFTAnalysis(wf, originalData.metadata.samplingRateHz,
                       originalData.metadata.channels, fftConfig.window)

\* the view shows this analysis: its bins, its size and, in the ChannelStats
\* objects of the view, its dominant frequencies
ShownAs(analysis) ==
    /\ displayedData.fftData = analysis.fftData
    /\ displayedData.fftMetadata.points = analysis.fftPoints
    /\ displayedData.fftMetadata.resolution = analysis.frequencyResolution
    /\ \A i \in 1..Len(displayedData.stats) :
          heap[displayedData.stats[i]].dominantFrequency
              = DominantOf(analysis.dominantFreqs, heap[displayedData.stats[i]].channelId)

\* the last handler was one of the three that recompute the spectrum of loaded data
Recomputed ==
    /\ Rendered
    /\ pc \in {"handleZoom", "handleResetZoom", "handleFftConfigChange"}

\* C21: after a zoom, a zoom reset or an FFT configuration change, the spectrum
\* shown is the analysis, under the configured window, of the whole original
\* waveform when the configured scope is 'full' and of the displayed slice when
\* it is 'view'.
C21_SourceFollowsScope ==
    Recomputed =>
        ShownAs(SpectrumFrom(IF fftConfig.scope = "full"
                             THEN originalData.waveform
                             ELSE displayedData.waveform))

\* a zoom to two samples of the five-sample file under scope 'full': the
\* spectrum has the 8 points of the original, not the 2 of the slice
C21_Witness ==
    /\ Recomputed
    /\ pc = "handleZoom"
    /\ fftConfig.scope = "full"
    /\ Len(originalData.waveform) = 5
    /\ Len(displayedData.waveform) = 2
    /\ displayedData.fftMetadata.points = Num(8)
    /\ SpectrumFrom(displayedData.waveform).fftPoints = Num(2)

\* C22: whenever data is loaded, the fftMetadata of the view names the
\* configured scope and the configured window.
C22_MetadataNamesConfig ==
    DataShown =>
        /\ displayedData.fftMetadata.scope = fftConfig.scope
        /\ displayedData.fftMetadata.window = fftConfig.window

\* scope 'full' was chosen, the App was reset and a file loaded: the
\* configuration still says 'full', the metadata of the new view says 'view'
C22_Witness ==
    /\ DataShown
    /\ pc = "handleFileChange"
    /\ fftConfig.scope = "full"
    /\ displayedData.fftMetadata.scope = "view"
    /\ displayedData.fftMetadata.window = fftConfig.window

-----------------------------------------------------------------------------
(* downsampleFFT: the decimation of the bins for display.  A bin is a       *)
(* FrequencyDataPoint, [frequency, vals], vals keyed by the channel names.  *)

\* Object.keys(data[0] || {}).filter(k => k !== 'frequency')
KeysOfBins(data) == IF Len(data) = 0 THEN {} ELSE DOMAIN data[1].vals

\* keys.forEach(k => sum += (point[k] || 0)); the sums of the model are exact,
\* so the order of the keys does not show
RECURSIVE MagSum(_, _)
MagSum(point, keys) ==
    IF keys = {} THEN Num(0)
    ELSE LET k == CHOOSE k \in keys : TRUE
         IN  Plus(OrZero(Get(point, k)), MagSum(point, keys \ {k}))

\* the inner loop over the bins i + j, j < step, of one pool (i 0-based)
RECURSIVE Pool(_, _, _, _, _, _, _)
Pool(data, keys, i, step, j, maxMagSum, bestPoint) ==
    IF j < step /\ i + j < Len(data)
    THEN IF Gt(MagSum(data[i + j + 1], keys), maxMagSum)
         THEN Pool(data, keys, i, step, j + 1, MagSum(data[i + j + 1], keys),
                   data[i + j + 1])
         ELSE Pool(data, keys, i, step, j + 1, maxMagSum, bestPoint)
    ELSE bestPoint

\* the outer loop: one bin pushed for every pool of step bins
RECURSIVE Pools(_, _, _, _)
Pools(data, keys, i, step) ==
    IF i < Len(data)
    THEN <<Pool(data, keys, i, step, 0, Num(-1), data[i + 1])>>
             \o Pools(data, keys, i + step, step)
    ELSE <<>>

downsampleFFT(data, targetCount) ==
    IF Len(data) <= targetCount THEN data
    ELSE Pools(data, KeysOfBins(data), 0, Len(data) \div targetCount)

\* the longest list of bins, and the largest target count
MaxBins == 4

MaxTarget == 3

\* the magnitudes a bin may carry
BinMagnitudes == {Num(0), Num(1), Num(2)}

KeyLists == {<<"ch0">>, <<"ch0", "ch1">>}

\* FFT data of n bins for the channels of the list
InitDownsample ==
    /\ pc = "input"
    /\ channels \in KeyLists
    /\ \E n \in 0..MaxBins :
         \E mags \in [1..n -> [{channels[k] : k \in 1..Len(channels)} -> BinMagnitudes]] :
            result = [kind |-> "fftData",
                      fftData |-> [j \in 1..n |-> [frequency |-> Num(j - 1),
                                                   vals |-> mags[j]]]]
    /\ waveform = <<>>
    /\ sampleRateHz = Num(1000)
    /\ windowType = "rectangular"
    /\ chU = ""
    /\ chV = ""
    /\ text = <<>>
    /\ AppMounted

\* const displayFFT = downsampleFFT(fftData, targetCount)
Downsample(targetCount) ==
    /\ pc = "input"
    /\ pc' = "downsampleFFT"
    /\ result' = [kind |-> "displayFFT",
                  fftData |-> result.fftData,
                  targetCount |-> targetCount,
                  displayFFT |-> downsampleFFT(result.fftData, targetCount)]
    /\ UNCHANGED <<waveform, channels, sampleRateHz, windowType, chU, chV, text>>
    /\ UNCHANGED appVars

NextDownsample == \E targetCount \in 1..MaxTarget : Downsample(targetCount)

SpecDownsample == InitDownsample /\ [][NextDownsample]_vars

\* the bins were decimated: the input was longer than the target count
Decimated ==
    /\ pc = "downsampleFFT"
    /\ Len(result.fftData) > result.targetCount

\* the largest magnitude of the channel over the bins
RECURSIVE PeakOf(_, _, _)
PeakOf(bins, key, i) ==
    IF i > Len(bins) THEN Num(-1)
    ELSE LET rest == PeakOf(bins, key, i + 1)
         IN  IF Gt(OrZero(Get(bins[i], key)), rest)
             THEN OrZero(Get(bins[i], key)) ELSE rest

\* every output bin is an input bin, and they come in ascending input order
InInputOrder ==
    \E at \in [1..Len(result.displayFFT) -> 1..Len(result.fftData)] :
        /\ \A o \in 1..Len(result.displayFFT) : result.displayFFT[o] = result.fftData[at[o]]
        /\ \A o \in 1..Len(result.displayFFT) - 1 : at[o] < at[o + 1]

\* C23: when the input is longer than the target count, the output holds, for
\* every channel key, the largest magnitude that channel has in the input, and
\* the output is made of input bins in ascending frequency order.
C23_PeakOfEveryChannelKept ==
    Decimated =>
        /\ \A key \in KeysOfBins(result.fftData) :
              PeakOf(result.displayFFT, key, 1) = PeakOf(result.fftData, key, 1)
        /\ InInputOrder

\* two channels whose peaks sit in the same pool: the bin with the larger sum
\* is kept and the peak of ch0 is in no output bin
C23_Witness ==
    /\ Decimated
    /\ InInputOrder
    /\ Gt(PeakOf(result.fftData, "ch0", 1), PeakOf(result.displayFFT, "ch0", 1))
    /\ PeakOf(result.displayFFT, "ch1", 1) = PeakOf(result.fftData, "ch1", 1)

-----------------------------------------------------------------------------
(* The parser on files that are rows of numbers and nothing else.           *)

\* the (0-based) lines of the text that are not blank
RowLines == {i \in 0..(Len(LinesOfText) - 1) : trim(LinesOfText[i + 1]) # <<>>}

\* every line that is not blank starts with a digit, has a comma, and each of its
\* comma-delimited fields parses as a number
OnlyNumericRows ==
    /\ RowLines # {}
    /\ \A i \in RowLines :
          /\ IsDigitLine(i)
          /\ Len(NumericParts(split(trim(LinesOfText[i + 1]), {","}), 1, <<>>))
                = Len(split(trim(LinesOfText[i + 1]), {","}))

\* the j-th (1-based) row of the text
RowOfText(j) == CHOOSE i \in RowLines : Cardinality({r \in RowLines : r < i}) = j - 1

\* the numbers of the j-th row that are channel values: all but the time column's
ChannelFieldsOfRow(j) ==
    LET fields == NumericParts(split(trim(LinesOfText[RowOfText(j) + 1]), {","}), 1, <<>>)
    IN  SelectSeq([k \in 1..Len(fields) |-> <<k - 1, fields[k]>>],
                  LAMBDA f : f[1] # TimeColumnOfText)

\* sample j carries the channel values of row j, in the row's order
SampleIsRow(j) ==
    /\ Cardinality(DOMAIN result.parsed.waveform[j].vals) = Len(ChannelFieldsOfRow(j))
    /\ \A k \in 1..Len(ChannelFieldsOfRow(j)) :
          /\ ChannelNames[k] \in DOMAIN result.parsed.waveform[j].vals
          /\ Eq(result.parsed.waveform[j].vals[ChannelNames[k]], ChannelFieldsOfRow(j)[k][2])

\* C24: for a text of numeric comma rows and no header line, the waveform has
\* one sample for every row that is not blank, in the order of the rows, the
\* first row of the file included.
C24_NoRowLost ==
    (ParsedText /\ OnlyNumericRows) =>
        /\ Len(result.parsed.waveform) = Cardinality(RowLines)
        /\ \A j \in 1..Len(result.parsed.waveform) : SampleIsRow(j)

\* three rows 0.1,0.2  0.3,0.4  0.1,0.2: the waveform has two samples, the
\* first of them made from the second row
C24_Witness ==
    /\ ParsedText
    /\ OnlyNumericRows
    /\ text = TextOf(<<FirstRow, SecondRow, FirstRow>>, 1)
    /\ Len(result.parsed.waveform) = 2
    /\ Eq(result.parsed.waveform[1].vals["ch0"], Rat(3, 10))
    /\ Eq(result.parsed.waveform[2].vals["ch0"], Rat(1, 10))

-----------------------------------------------------------------------------
(* handleGeminiAnalysis: the call of the remote summarizer and its late      *)
(* answer.  A call in flight is kept as what it was made from; the summary  *)
(* that comes back is known by the call it answers.                         *)

\* t.analyzingPrompt and t.errorAnalysis
AnalyzingPrompt == [kind |-> "analyzingPrompt"]

ErrorAnalysis == [kind |-> "errorAnalysis"]

\* the samples the snippet is written from: displayedData.waveform.slice(0, 10)
SnippetOf(data) ==
    SubSeq(data.waveform, 1, IF Len(data.waveform) < 10 THEN Len(data.waveform) ELSE 10)

\* p[ch].toFixed(2) of a sample that has no value for the channel raises a TypeError
SnippetThrows(data) ==
    \E i \in 1..Len(SnippetOf(data)), k \in 1..Len(data.metadata.channels) :
        Get(SnippetOf(data)[i], data.metadata.channels[k]) = undefined

\* the arguments of analyzeSignalWithGemini: metadata, the stats as they are at
\* the call, and the snippet
RequestOf(data, h) ==
    [metadata |-> data.metadata,
     stats    |-> [i \in 1..Len(data.stats) |-> h[data.stats[i]]],
     snippet  |-> SnippetOf(data)]

\* the handler up to its await
handleGeminiAnalysis ==
    /\ displayedData # null
    /\ IF SnippetThrows(displayedData)
       THEN /\ aiAnalysis' = ErrorAnalysis
            /\ pending' = pending
            /\ pc' = "handleGeminiAnalysis.catch"
       ELSE /\ aiAnalysis' = AnalyzingPrompt
            /\ pending' = pending \cup {RequestOf(displayedData, heap)}
            /\ pc' = "handleGeminiAnalysis.await"
    /\ UNCHANGED <<originalData, displayedData, fftConfig, isZoomed, mathCount, heap,
                   status, channelNames, analysisVars, panelVars>>

\* the call resolves: setAiAnalysis(analysis)
handleGeminiAnalysisThen(request) ==
    /\ request \in pending
    /\ aiAnalysis' = [kind |-> "analysis", of |-> request]
    /\ pending' = pending \ {request}
    /\ pc' = "handleGeminiAnalysis.then"
    /\ UNCHANGED <<originalData, displayedData, fftConfig, isZoomed, mathCount, heap,
                   status, channelNames, analysisVars, panelVars>>

\* the call rejects: setAiAnalysis(t.errorAnalysis)
handleGeminiAnalysisCatch(request) ==
    /\ request \in pending
    /\ aiAnalysis' = ErrorAnalysis
    /\ pending' = pending \ {request}
    /\ pc' = "handleGeminiAnalysis.catch"
    /\ UNCHANGED <<originalData, displayedData, fftConfig, isZoomed, mathCount, heap,
                   status, channelNames, analysisVars, panelVars>>

\* the calls that may be in flight at once
MaxPending == 1

\* Time,A,B with three samples, the second without a value for B
GapFile ==
    TextOf(<<<<"T", "i", "m", "e", ",", "A", ",", "B">>, <<"0", ",", "1", ",", "2">>,
             <<"1", ",", "3">>, <<"2", ",", "1", ",", "1">>>>, 1)

InsightFiles == {RampFile, GapFile}

HandleFileChangeInsight == \E fileText \in InsightFiles : handleFileChange(fileText)

\* the analyze button is part of the data section
HandleGeminiAnalysis ==
    /\ Rendered
    /\ Cardinality(pending) < MaxPending
    /\ handleGeminiAnalysis

HandleGeminiAnalysisThen == \E request \in pending : handleGeminiAnalysisThen(request)

HandleGeminiAnalysisCatch == \E request \in pending : handleGeminiAnalysisCatch(request)

NextInsight ==
    \/ HandleFileChangeBegin
    \/ HandleFileChangeInsight
    \/ HandleFileChangeError
    \/ ResetApp
    \/ HandleZoom
    \/ HandleResetZoom
    \/ HandleGeminiAnalysis
    \/ HandleGeminiAnalysisThen
    \/ HandleGeminiAnalysisCatch

SpecInsight == InitApp /\ [][NextInsight]_vars

\* the panel shows a summary
SummaryShown == aiAnalysis # NoText /\ aiAnalysis.kind = "analysis"

\* C25: whenever aiAnalysis holds a summary, the summary was made from the
\* window now displayed of the file now loaded; an answer that comes back after
\* a zoom, a reset zoom, 'Import New' or a load is not shown.
C25_SummaryIsOfDisplayedWindow ==
    SummaryShown =>
        /\ displayedData # null
        /\ aiAnalysis.of.metadata = displayedData.metadata
        /\ aiAnalysis.of.snippet = SnippetOf(displayedData)

\* the summary asked for on the whole capture came back after a zoom: the view
\* is a slice, the panel shows the summary of the whole capture
C25_Witness ==
    /\ pc = "handleGeminiAnalysis.then"
    /\ SummaryShown
    /\ Rendered
    /\ isZoomed
    /\ aiAnalysis.of.snippet = SnippetOf(originalData)
    /\ aiAnalysis.of.snippet # SnippetOf(displayedData)

-----------------------------------------------------------------------------
(* The math channel and the spectrum shown for it (SpecApp).                *)

\* the last handler added a math channel
MathApplied == Rendered /\ pc = "handleApplyMath"

\* the channel the last handleApplyMath added
NewMathChannel == MathName(mathCount)

\* the view shows, for the channel, the bins and the dominant frequency of the analysis
ChannelShownAs(analysis, ch) ==
    /\ Len(displayedData.fftData) = Len(analysis.fftData)
    /\ \A j \in 1..Len(analysis.fftData) :
          Get(displayedData.fftData[j], ch) = Get(analysis.fftData[j], ch)
    /\ \A i \in 1..Len(displayedData.stats) :
          heap[displayedData.stats[i]].channelId = ch =>
              heap[displayedData.stats[i]].dominantFrequency
                  = DominantOf(analysis.dominantFreqs, ch)

\* C26: right after handleApplyMath the spectrum and the dominant frequency
\* shown for the new channel are those of the new channel's samples over the
\* waveform the scope selects, for scope 'view' and for scope 'full'.
C26_MathSpectrumIsOfMathSamples ==
    MathApplied =>
        ChannelShownAs(SpectrumFrom(IF fftConfig.scope = "full"
                                    THEN originalData.waveform
                                    ELSE displayedData.waveform),
                       NewMathChannel)

\* Math1 = 2 * Ch0 under scope 'full': the samples of Math1 are not all zero,
\* every bin shown for Math1 is zero
C26_Witness ==
    /\ MathApplied
    /\ fftConfig.scope = "full"
    /\ \E i \in 1..Len(originalData.waveform) :
          Sgn(Get(originalData.waveform[i], NewMathChannel)) # 0
    /\ \A j \in 1..Len(displayedData.fftData) :
          Get(displayedData.fftData[j], NewMathChannel) = Num(0)
    /\ \E j \in 1..Len(SpectrumFrom(originalData.waveform).fftData) :
          Get(SpectrumFrom(originalData.waveform).fftData[j], NewMathChannel) # Num(0)

-----------------------------------------------------------------------------
(* The math panel after channels have been renamed: one file, the rename    *)
(* field of the statistics table, the source select and the factor field.   *)

\* the names a user may type into the rename field
CustomNames == {"Volt", "ch1", ""}

\* the channels the statistics table has a rename control for
TableChannels == {heap[displayedData.stats[i]].channelId : i \in 1..Len(displayedData.stats)}

\* the values of the options of the source select: channelNames[ch] || ch
OptionValues ==
    {DisplayName(originalData.metadata.channels[k]) :
        k \in 1..Len(originalData.metadata.channels)}

HandleFileChangeRename == handleFileChange(PairFile)

StartRenaming == Rendered /\ \E channelId \in TableChannels : startRenaming(channelId)

\* the rename field is there while a channel is being renamed
SetTempName ==
    /\ Rendered
    /\ editingChannel # null
    /\ \E value \in CustomNames : setTempName(value)

SaveChannelName == Rendered /\ editingChannel # null /\ saveChannelName

SetMathSourceCh == Rendered /\ \E value \in OptionValues : setMathSourceCh(value)

SetMathFactor == Rendered /\ \E value \in MathFactors : setMathFactor(value)

ApplyMathOfPanel == Rendered /\ mathCount < MaxMath /\ handleApplyMath

NextRename ==
    \/ HandleFileChangeBegin
    \/ HandleFileChangeRename
    \/ StartRenaming
    \/ SetTempName
    \/ SaveChannelName
    \/ SetMathSourceCh
    \/ SetMathFactor
    \/ ApplyMathOfPanel

SpecRename == InitApp /\ [][NextRename]_vars

\* the channels the source select had an option for when the math channel was added
SourceOptions ==
    {k \in 1..Len(originalData.metadata.channels) :
        originalData.metadata.channels[k] # NewMathChannel}

\* the channel whose option the select shows as chosen: the first one whose
\* option value is the select's value
ChosenOption ==
    CHOOSE k \in SourceOptions :
        /\ DisplayName(originalData.metadata.channels[k]) = mathSourceCh
        /\ \A j \in SourceOptions :
              DisplayName(originalData.metadata.channels[j]) = mathSourceCh => k <= j

\* the select's value is the value of one of its options
OptionChosen ==
    \E k \in SourceOptions : DisplayName(originalData.metadata.channels[k]) = mathSourceCh

\* every sample's new channel is the factor times its value of the channel
MathIsFactorTimes(ch) ==
    \A i \in 1..Len(originalData.waveform) :
        Get(originalData.waveform[i], NewMathChannel)
            = Times(OrZero(Get(originalData.waveform[i], ch)), parseFloat(mathFactor))

\* C27: after handleApplyMath has added a channel, each sample's new value is
\* the factor times the sample's value of the channel chosen in the source
\* select, whatever display names the channels were given before.
C27_MathOfChosenChannel ==
    (MathApplied /\ OptionChosen) =>
        MathIsFactorTimes(originalData.metadata.channels[ChosenOption])

\* ch0 was renamed to Volt and chosen as the source, the factor is 2: the new
\* channel is 0 in every sample, ch0 is not
C27_Witness ==
    /\ MathApplied
    /\ OptionChosen
    /\ mathSourceCh = "Volt"
    /\ originalData.metadata.channels[ChosenOption] = "ch0"
    /\ parseFloat(mathFactor) = Num(2)
    /\ \A i \in 1..Len(originalData.waveform) :
          Get(originalData.waveform[i], NewMathChannel) = Num(0)
    /\ \E i \in 1..Len(originalData.waveform) :
          Sgn(Get(originalData.waveform[i], "ch0")) # 0

-----------------------------------------------------------------------------
(* The view as a window on the original (SpecApp).                          *)

\* the view's samples are the samples first .. last (1-based) of the original
IsSliceOfOriginal(first, last) ==
    displayedData.waveform = SubSeq(originalData.waveform, first, last)

\* the (0-based) index of the first and of the last sample that
\* handleZoom(startTime, endTime) selects
ZoomFirst(startTime) ==
    IMax(0, StartIndex(originalData.waveform, startTime,
                       findIndex(originalData.waveform, startTime)))

ZoomLast(endTime) ==
    IMin(Len(originalData.waveform) - 1,
         EndIndex(originalData.waveform, endTime, findIndex(originalData.waveform, endTime)))

\* what holds of the view in every state with data loaded
ViewIsWindow ==
    DataShown =>
        /\ \E first \in 1..(Len(originalData.waveform) + 1),
              last \in 0..Len(originalData.waveform) : IsSliceOfOriginal(first, last)
        /\ ~isZoomed => displayedData.waveform = originalData.waveform
        /\ isZoomed => Len(displayedData.waveform) >= 2
        /\ displayedData.metadata.points = Len(displayedData.waveform)
        /\ displayedData.metadata.channels = originalData.metadata.channels

\* a step in which handleZoom changed the state answers a request whose start
\* time is before its end time and which selects two samples or more, and it
\* shows the samples selected
ZoomChangesOnlyOnRequest ==
    pc' = "handleZoom" =>
        \E startTime \in ZoomTimes, endTime \in ZoomTimes :
            /\ ~Ge(startTime, endTime)
            /\ ZoomLast(endTime) - ZoomFirst(startTime) + 1 >= 2
            /\ displayedData'.waveform
                  = SubSeq(originalData.waveform, ZoomFirst(startTime) + 1, ZoomLast(endTime) + 1)
            /\ originalData' = originalData

\* C28: with data loaded the view's waveform is a contiguous slice of the
\* original's (all of it when not zoomed, two samples or more when zoomed), the
\* view's metadata.points is the length of the slice and its channel list is
\* the original's; a zoom whose start time is not before its end time, or that
\* would select fewer than two samples, changes nothing.
C28_ViewIsWindowOnOriginal == []ViewIsWindow /\ [][ZoomChangesOnlyOnRequest]_vars

\* a zoom to the times 1 .. 9 of the five-sample file: the view is the samples
\* 2 to 5 of the original; a zoom to the times 9 .. 9 would select one sample
C28_Witness ==
    /\ Rendered
    /\ pc = "handleZoom"
    /\ isZoomed
    /\ Len(originalData.waveform) = 5
    /\ Len(displayedData.waveform) = 4
    /\ IsSliceOfOriginal(2, 5)
    /\ displayedData.metadata.points = 4
    /\ ZoomLast(Num(9)) - ZoomFirst(Num(9)) + 1 = 1

-----------------------------------------------------------------------------
(* The status of the App (SpecApp).                                         *)

\* the changes of status: IDLE -> ANALYZING -> COMPLETED | ERROR,
\* ERROR -> ANALYZING, and COMPLETED -> IDLE by resetApp
StatusChanges ==
    {<<"IDLE", "ANALYZING">>, <<"ANALYZING", "COMPLETED">>, <<"ANALYZING", "ERROR">>,
     <<"ERROR", "ANALYZING">>, <<"COMPLETED", "IDLE">>}

CompletedIffLoaded ==
    status = "COMPLETED" <=> (originalData # null /\ displayedData # null)

StatusStep ==
    /\ status' # status => <<status, status'>> \in StatusChanges
    /\ (status = "COMPLETED" /\ status' = "IDLE") => pc' = "resetApp"
    /\ pc' = "handleFileChange.await" => status \in {"IDLE", "ERROR"}

\* C29: status is COMPLETED exactly when originalData and displayedData are
\* both set; status changes only IDLE -> ANALYZING -> COMPLETED or ERROR,
\* ERROR -> ANALYZING, and COMPLETED -> IDLE through resetApp; a load starts
\* only while the status is IDLE or ERROR.
C29_StatusFollowsLoad == []CompletedIffLoaded /\ [][StatusStep]_vars

\* the load of the five-sample file has completed: both data objects are set
C29_Witness ==
    /\ pc = "handleFileChange"
    /\ status = "COMPLETED"
    /\ originalData # null
    /\ displayedData # null
    /\ Len(originalData.waveform) = 5

-----------------------------------------------------------------------------
(* The load of a file without data rows (SpecApp).                          *)

\* the load has ended, in the try block or in the catch block
LoadEnded == pc \in {"handleFileChange", "handleFileChange.catch"}

\* C30: the load of a text file that is not empty, one without any numeric row
\* included, ends with status COMPLETED or ERROR, and neither the load nor the
\* render that follows reads a first or last sample that is not there.
C30_LoadLeavesAppUsable ==
    /\ LoadEnded => status \in {"COMPLETED", "ERROR"}
    /\ DataShown => fullTimeRange(originalData) # TypeError

\* the file 'Data Uint:mv' was loaded: the status is COMPLETED, the waveform
\* is empty, and the render reads originalData.waveform[0].time
C30_Witness ==
    /\ pc = "handleFileChange"
    /\ status = "COMPLETED"
    /\ DataShown
    /\ Len(originalData.waveform) = 0
    /\ originalData.metadata.channels = <<>>
    /\ RenderThrows

====
